---- MODULE Spec2Model ----
(***************************************************************************)
(* kibo: a content-addressed snapshot engine.                              *)
(*                                                                         *)
(* Strings and byte strings are sequences of one-character strings, so     *)
(* that prefixes, magic headers and path components are computed and not   *)
(* assumed.  A path is a sequence of component names relative to the       *)
(* repository root.                                                        *)
(***************************************************************************)
EXTENDS Integers, Sequences, FiniteSets, TLC

VARIABLES ws, store, manifests, cache, last, pre, steps

vars == <<ws, store, manifests, cache, last, pre, steps>>

(***************************************************************************)
(* Bounds of the model.                                                    *)
(***************************************************************************)
\* number of hex digits of a digest (64 in the program)
HashLen == 3
\* sub-second units per second (10^9 in the program)
NanosPerSec == 2
\* number of commands and workspace edits in one behaviour
MaxSteps == 3

(***************************************************************************)
(* Program constants.                                                      *)
(***************************************************************************)
DEFAULT_COMPRESSION_LEVEL == 3
MaxZstdLevel == 22
MaxCompressionLevel == 10
\* 0o444, the mode of a blob published by store_file
BlobMode == 292
\* 0o644 and 0o755: what File::create and create_dir_all give a new entry
DefaultFileMode == 420
DefaultDirMode == 493

COMPRESSION_MAGIC == <<"K", "B", "C", "P">>

(***************************************************************************)
(* Generic helpers.                                                        *)
(***************************************************************************)
Min(a, b) == IF a < b THEN a ELSE b

IsPrefixSeq(p, s) == Len(p) <= Len(s) /\ SubSeq(s, 1, Len(p)) = p

RECURSIVE SumOver(_, _)
SumOver(S, f) ==
    IF S = {} THEN 0
    ELSE LET x == CHOOSE y \in S : TRUE
         IN f[x] + SumOver(S \ {x}, f)

RECURSIVE Pow(_, _)
Pow(b, e) == IF e = 0 THEN 1 ELSE b * Pow(b, e - 1)

(***************************************************************************)
(* Hashing.  blake3 is modelled as a collision-free map from the byte      *)
(* strings of the model to hex strings of HashLen digits; a file and a     *)
(* symlink target with the same bytes get the same digest.                 *)
(***************************************************************************)
HexDigits ==
    <<"0", "1", "2", "3", "4", "5", "6", "7",
      "8", "9", "a", "b", "c", "d", "e", "f">>

RECURSIVE ToHex(_, _)
ToHex(n, len) ==
    IF len = 0 THEN <<>>
    ELSE Append(ToHex(n \div 16, len - 1), HexDigits[(n % 16) + 1])

\* the digest of the i-th byte string of the model
DigestOf(i) == ToHex((i * 9) % Pow(16, HashLen), HashLen)

\* a symlink target that leads from the repository root to the blob of
\* the first byte string
StoreLinkTarget ==
    <<".", "k", "i", "b", "o", "/", "s", "t", "o", "r", "e", "/">>
    \o SubSeq(DigestOf(1), 1, 2) \o <<"/">> \o SubSeq(DigestOf(1), 3, HashLen)

\* every byte string a file, a symlink target or a decoded blob can hold
ByteStrings ==
    << <<"a">>, <<"b">>, <<>>,
       <<"K", "B", "C", "P", "x">>,
       <<"K", "B", "C", "P", "Z", "3", "a">>,
       <<"a", "a">>,
       StoreLinkTarget >>

Blake3(bytes) ==
    DigestOf(CHOOSE k \in 1..Len(ByteStrings) : ByteStrings[k] = bytes)

\* file_hash::hash_file: digest of the bytes read through the path
hash_file(bytes) == Blake3(bytes)

\* file_hash::hash_symlink: digest of the bytes of the link's target string
hash_symlink(target) == Blake3(target)

(***************************************************************************)
(* zstd, as a lossless codec: a frame is a header naming the level and     *)
(* the payload; decoding anything that is not a frame is an error.         *)
(***************************************************************************)
LevelTags ==
    <<"1", "2", "3", "4", "5", "6", "7", "8", "9", "10", "11",
      "12", "13", "14", "15", "16", "17", "18", "19", "20", "21", "22">>

ZstdEncode(level, data) == <<"Z", LevelTags[level]>> \o data

ZstdDecode(bytes) ==
    IF Len(bytes) >= 2 /\ bytes[1] = "Z"
    THEN [ok |-> TRUE, out |-> SubSeq(bytes, 3, Len(bytes))]
    ELSE [ok |-> FALSE, out |-> <<>>]

(***************************************************************************)
(* The blob store: <store>/<prefix>/<rest>.  store maps each existing      *)
(* prefix directory to its files, each file to its bytes and mode.         *)
(***************************************************************************)
EmptyDir == [n \in {} |-> 0]

blob_path(hash) ==
    LET k == Min(2, Len(hash))
    IN [prefix |-> SubSeq(hash, 1, k), rest |-> SubSeq(hash, k + 1, Len(hash))]

\* Path::exists of the blob path; with an empty rest the path is the prefix
\* directory itself
has_blob(st, hash) ==
    LET bp == blob_path(hash)
    IN /\ bp.prefix \in DOMAIN st
       /\ (bp.rest = <<>> \/ bp.rest \in DOMAIN st[bp.prefix])

BlobBytes(st, hash) ==
    LET bp == blob_path(hash) IN st[bp.prefix][bp.rest].bytes

\* fs::create_dir_all of the prefix directory
EnsurePrefix(st, prefix) ==
    IF prefix \in DOMAIN st THEN st
    ELSE [p \in DOMAIN st \cup {prefix} |->
            IF p = prefix THEN EmptyDir ELSE st[p]]

\* the rename of a staged file onto the blob path
PutBlob(st, hash, bytes, mode) ==
    LET bp == blob_path(hash)
        s1 == EnsurePrefix(st, bp.prefix)
    IN [s1 EXCEPT ![bp.prefix] =
          [n \in DOMAIN s1[bp.prefix] \cup {bp.rest} |->
             IF n = bp.rest THEN [bytes |-> bytes, mode |-> mode]
             ELSE s1[bp.prefix][n]]]

ZstdLevel(level) ==
    IF level > MaxZstdLevel THEN MaxZstdLevel
    ELSE IF level = 0 THEN DEFAULT_COMPRESSION_LEVEL
    ELSE level

compress_file_to_blob(level, data) ==
    COMPRESSION_MAGIC \o ZstdEncode(ZstdLevel(level), data)

\* store_file without the test for an existing blob: every call writes
store_file_overwrite(st, level, src, hash) ==
    [store |-> PutBlob(st, hash,
                       IF level > 0 THEN compress_file_to_blob(level, src.bytes)
                       ELSE src.bytes,
                       BlobMode),
     ok |-> TRUE, ret |-> TRUE]

\* Store::store_file.  src is [ok, bytes]: whether the source can be opened
\* and what it holds.  Returns the store, Ok/Err and the was-new flag.
store_file(st, level, src, hash) ==
    IF has_blob(st, hash)
    THEN [store |-> st, ok |-> TRUE, ret |-> FALSE]
    ELSE LET s1 == EnsurePrefix(st, blob_path(hash).prefix)
         IN IF ~src.ok
            THEN [store |-> s1, ok |-> FALSE, ret |-> FALSE]
            ELSE [store |-> PutBlob(s1, hash,
                                    IF level > 0
                                    THEN compress_file_to_blob(level, src.bytes)
                                    ELSE src.bytes,
                                    BlobMode),
                  ok |-> TRUE, ret |-> TRUE]

\* store_symlink without the test for an existing blob
store_symlink_overwrite(st, target, hash) ==
    [store |-> PutBlob(st, hash, target, DefaultFileMode), ok |-> TRUE, ret |-> TRUE]

\* Store::store_symlink: the target string, written raw by atomic_write
store_symlink(st, target, hash) ==
    IF has_blob(st, hash)
    THEN [store |-> st, ok |-> TRUE, ret |-> FALSE]
    ELSE [store |-> PutBlob(st, hash, target, DefaultFileMode),
          ok |-> TRUE, ret |-> TRUE]

is_blob_compressed(st, hash) ==
    /\ has_blob(st, hash)
    /\ Len(BlobBytes(st, hash)) >= Len(COMPRESSION_MAGIC)
    /\ SubSeq(BlobBytes(st, hash), 1, Len(COMPRESSION_MAGIC)) = COMPRESSION_MAGIC

\* Store::decompress_blob_to_file: the destination is created (truncated)
\* before the stream is decoded, so a failed decode leaves it empty
decompress_blob_to_file(bytes) ==
    LET d == ZstdDecode(SubSeq(bytes, Len(COMPRESSION_MAGIC) + 1, Len(bytes)))
    IN [ok |-> d.ok, wrote |-> TRUE, out |-> d.out]

\* Store::copy_blob_to_file: ok, whether the destination was opened for
\* writing, and the bytes it then holds
copy_blob_to_file(st, hash) ==
    IF ~has_blob(st, hash)
    THEN [ok |-> FALSE, wrote |-> FALSE, out |-> <<>>]
    ELSE IF is_blob_compressed(st, hash)
         THEN decompress_blob_to_file(BlobBytes(st, hash))
         ELSE [ok |-> TRUE, wrote |-> TRUE, out |-> BlobBytes(st, hash)]

\* fs::read_to_string fails on bytes that are not UTF-8: a zstd frame is not
IsUtf8(bytes) == ~(\E i \in 1..Len(bytes) : bytes[i] = "Z")

\* Store::retrieve_symlink_target
retrieve_symlink_target(st, hash) ==
    IF has_blob(st, hash) /\ IsUtf8(BlobBytes(st, hash))
    THEN [ok |-> TRUE, target |-> BlobBytes(st, hash)]
    ELSE [ok |-> FALSE, target |-> <<>>]

\* a sweep that looks the file name up in the live set without the prefix
GcKept_name_only(st, prefix, referenced) ==
    {n \in DOMAIN st[prefix] : n \in referenced}

\* the blobs of a prefix directory that the sweep keeps: the hash is rebuilt
\* as prefix ++ file name
GcKept(st, prefix, referenced) ==
    {n \in DOMAIN st[prefix] : (prefix \o n) \in referenced}

\* Store::garbage_collect
garbage_collect(st, referenced) ==
    LET keptDirs == {p \in DOMAIN st : GcKept(st, p, referenced) # {}}
        gone == {pn \in UNION {{<<p, n>> : n \in DOMAIN st[p]} : p \in DOMAIN st} :
                    pn[2] \notin GcKept(st, pn[1], referenced)}
    IN [store |-> [p \in keptDirs |->
                     [n \in GcKept(st, p, referenced) |-> st[p][n]]],
        removed |-> Cardinality(gone),
        freed |-> SumOver(gone, [pn \in gone |-> Len(st[pn[1]][pn[2]].bytes)])]

\* the hashes of the blobs in the store
StoredHashes(st) ==
    UNION {{p \o n : n \in DOMAIN st[p]} : p \in DOMAIN st}

(***************************************************************************)
(* Names, paths and the workspace tree.                                    *)
(***************************************************************************)
N_src == <<"s", "r", "c">>
N_a == <<"a">>
N_b == <<"b">>
N_cfg == <<"c", "f", "g">>
N_kibo == <<".", "k", "i", "b", "o">>
N_store == <<"s", "t", "o", "r", "e">>
\* a hidden directory of the workspace
N_h == <<".", "h">>

\* basename of the repository root directory
RootName == <<"p", "r", "o", "j">>

P_src == <<N_src>>
P_a == <<N_src, N_a>>
P_b == <<N_src, N_b>>
P_cfg == <<N_cfg>>
P_scfg == <<N_src, N_cfg>>
P_h == <<N_h>>
P_hsrc == <<N_h, N_src>>
P_hsa == <<N_h, N_src, N_a>>
\* a directory inside .kibo that has the name of a tracked directory, and a
\* file in it
P_kibo == <<N_kibo>>
P_ksrc == <<N_kibo, N_src>>
P_kscfg == <<N_kibo, N_src, N_cfg>>

\* the paths of the workspace that can hold an entry (relative to the root),
\* in the alphabetical order in which glob() yields them
WsPathSeq ==
    <<P_h, P_hsrc, P_hsa, P_kibo, P_ksrc, P_kscfg, P_cfg, P_src, P_a, P_b, P_scfg>>

WsPaths == {WsPathSeq[i] : i \in 1..Len(WsPathSeq)}

\* the paths of a set in alphabetical order, the root (the empty path) first
Sorted(S) ==
    LET idx == {i \in 1..Len(WsPathSeq) : WsPathSeq[i] \in S}
    IN (IF <<>> \in S THEN <<<<>>>> ELSE <<>>)
       \o [k \in 1..Cardinality(idx) |->
             WsPathSeq[CHOOSE i \in idx : Cardinality({j \in idx : j < i}) = k - 1]]

NoNode == [kind |-> "none", bytes |-> <<>>, mode |-> 0, mtime |-> 0]
RootNode == [kind |-> "dir", bytes |-> <<>>, mode |-> DefaultDirMode, mtime |-> 0]

\* lstat: the entry at a path, links not followed
NodeAt(w, p) ==
    IF p = <<>> THEN RootNode
    ELSE IF p \in WsPaths THEN w[p]
    ELSE NoNode

Parent(p) == SubSeq(p, 1, Len(p) - 1)

\* Path::file_name / DirEntry::file_name
file_name(p) == IF p = <<>> THEN RootName ELSE p[Len(p)]

RECURSIVE SplitOn(_, _, _)
SplitOn(str, sep, acc) ==
    IF str = <<>> THEN (IF acc = <<>> THEN <<>> ELSE <<acc>>)
    ELSE IF str[1] = sep
         THEN (IF acc = <<>> THEN <<>> ELSE <<acc>>) \o SplitOn(Tail(str), sep, <<>>)
         ELSE SplitOn(Tail(str), sep, Append(acc, str[1]))

\* the normal components of a path string
Components(str) == SplitOn(str, "/", <<>>)

RECURSIVE PathStr(_)
\* Path::to_string_lossy of a relative path
PathStr(p) ==
    IF p = <<>> THEN <<>>
    ELSE IF Len(p) = 1 THEN p[1]
    ELSE p[1] \o <<"/">> \o PathStr(Tail(p))

\* where a symlink at path p with the given target string points
LinkDest(p, target) == Parent(p) \o Components(target)

RECURSIVE ResolveN(_, _, _)
ResolveN(w, p, fuel) ==
    IF NodeAt(w, p).kind # "symlink" THEN p
    ELSE IF fuel = 0 THEN <<<<"!">>>>
    ELSE ResolveN(w, LinkDest(p, NodeAt(w, p).bytes), fuel - 1)

\* the path a system call that follows links acts on
Resolve(w, p) == ResolveN(w, p, Cardinality(WsPaths))

\* stat: the entry a path leads to, links followed
Stat(w, p) == NodeAt(w, Resolve(w, p))

\* a resolved path that names a file of the blob store, and its hash
IsStorePath(t) == Len(t) = 4 /\ t[1] = N_kibo /\ t[2] = N_store
StoreHashOf(t) == t[3] \o t[4]

\* owner-read and owner-write permission bits
Readable(node) == (node.mode % 512) >= 256
Writable(node) == (node.mode % 256) >= 128

\* st_mode as MetadataExt::mode returns it: file type bits and permissions
st_mode(node) ==
    (CASE node.kind = "file" -> 32768
       [] node.kind = "dir" -> 16384
       [] node.kind = "symlink" -> 40960
       [] OTHER -> 0) + node.mode

\* what chmod keeps of a mode
PermBits(mode) == mode % 4096

\* the instant the clock shows while a command runs
Now == 9

\* an entry is created or unlinked in directory d: its mtime is the clock's
TouchDir(w, d) ==
    IF d \in WsPaths /\ w[d].kind = "dir"
    THEN [w EXCEPT ![d].mtime = Now]
    ELSE w

RECURSIVE create_dir_all(_, _)
\* fs::create_dir_all
create_dir_all(w, d) ==
    IF d = <<>> \/ NodeAt(w, d).kind # "none" \/ d \notin WsPaths THEN w
    ELSE LET w1 == create_dir_all(w, Parent(d))
         IN TouchDir([w1 EXCEPT ![d] =
                        [kind |-> "dir", bytes |-> <<>>,
                         mode |-> DefaultDirMode, mtime |-> Now]],
                     Parent(d))

\* fs::remove_file / fs::remove_dir of an existing entry
Unlink(w, p) == TouchDir([w EXCEPT ![p] = NoNode], Parent(p))

Children(w, d) ==
    {p \in WsPaths : Len(p) = Len(d) + 1 /\ IsPrefixSeq(d, p) /\ w[p].kind # "none"}

\* WalkDir::new(start).follow_links(false) with filter_entry(Pass): the
\* entries from start down, none below an entry the filter rejects
Walk(w, start, Pass(_)) ==
    {p \in WsPaths \cup {start} :
        /\ NodeAt(w, p).kind # "none"
        /\ IsPrefixSeq(start, p)
        /\ \A k \in Len(start)..Len(p) : Pass(SubSeq(p, 1, k))}

(***************************************************************************)
(* Glob patterns and ignore rules.                                         *)
(***************************************************************************)
RECURSIVE GlobMatch(_, _)
\* glob::Pattern::matches with the default options: * matches any run of
\* characters (separators too), ? any one character
GlobMatch(pat, str) ==
    IF pat = <<>> THEN str = <<>>
    ELSE IF pat[1] = "*"
         THEN GlobMatch(Tail(pat), str)
              \/ (str # <<>> /\ GlobMatch(pat, Tail(str)))
         ELSE /\ str # <<>>
              /\ (pat[1] = "?" \/ pat[1] = str[1])
              /\ GlobMatch(Tail(pat), Tail(str))

\* ignore rules that know the glob match only
should_ignore_glob_only(patterns, p) ==
    \E i \in 1..Len(patterns) : GlobMatch(patterns[i], PathStr(p))

\* Config::should_ignore and Manifest::should_ignore (the same text twice)
should_ignore(patterns, p) ==
    \E i \in 1..Len(patterns) :
        \/ GlobMatch(patterns[i], PathStr(p))
        \/ IsPrefixSeq(patterns[i], PathStr(p))
        \/ \E k \in 1..Len(p) : p[k] = patterns[i]

ContainsStarStar(pat) ==
    \E i \in 1..(Len(pat) - 1) : pat[i] = "*" /\ pat[i + 1] = "*"

StripSlash(pat) == IF pat # <<>> /\ pat[1] = "/" THEN Tail(pat) ELSE pat

\* a translation that makes every pattern recursive
full_pattern_recursive(pattern) ==
    <<<<"*", "*">>>>
    \o (IF IsPrefixSeq(<<".", "/">>, pattern)
        THEN Components(SubSeq(pattern, 3, Len(pattern)))
        ELSE Components(StripSlash(pattern)))

\* the pattern handed to glob(), as components below the root
full_pattern(pattern) ==
    IF IsPrefixSeq(<<".", "/">>, pattern)
    THEN Components(SubSeq(pattern, 3, Len(pattern)))
    ELSE IF ContainsStarStar(pattern)
         THEN Components(StripSlash(pattern))
         ELSE <<<<"*", "*">>>> \o Components(StripSlash(pattern))

RECURSIVE MatchComponents(_, _)
\* glob(): a ** component stands for any number of directories, every other
\* component matches one name
MatchComponents(pats, p) ==
    IF pats = <<>> THEN p = <<>>
    ELSE IF pats[1] = <<"*", "*">>
         THEN MatchComponents(Tail(pats), p)
              \/ (Len(p) > 1 /\ MatchComponents(pats, Tail(p)))
         ELSE /\ p # <<>>
              /\ GlobMatch(pats[1], p[1])
              /\ MatchComponents(Tail(pats), Tail(p))

\* the existing paths glob() yields for a tracked file pattern
GlobPaths(w, pattern) ==
    {p \in WsPaths : w[p].kind # "none" /\ MatchComponents(full_pattern(pattern), p)}

(***************************************************************************)
(* Time stamps.  A modification time is an integer number of sub-second    *)
(* units relative to the Unix epoch.                                       *)
(***************************************************************************)
\* duration_since(UNIX_EPOCH).unwrap_or_else(|_| Duration::from_secs(0))
mtime_or_zero(t) ==
    IF t >= 0 THEN <<t \div NanosPerSec, t % NanosPerSec>> ELSE <<0, 0>>

\* file_hash::system_time_to_secs_nanos
system_time_to_secs_nanos(t) ==
    IF t >= 0 THEN <<t \div NanosPerSec, t % NanosPerSec>>
    ELSE <<-((-t) \div NanosPerSec), (-t) % NanosPerSec>>

\* FileTime::from_unix_time
from_unix_time(secs, nanos) == secs * NanosPerSec + nanos

(***************************************************************************)
(* The hash cache: path -> (size, mtime_secs, mtime_nanos, hash).          *)
(***************************************************************************)
EmptyCache == [p \in {} |-> 0]

\* HashCache::get
cache_get(c, p, size, mtime) ==
    IF p \in DOMAIN c
       /\ c[p].size = size
       /\ c[p].mtime_secs = system_time_to_secs_nanos(mtime)[1]
       /\ c[p].mtime_nanos = system_time_to_secs_nanos(mtime)[2]
    THEN [some |-> TRUE, hash |-> c[p].hash]
    ELSE [some |-> FALSE, hash |-> <<>>]

\* an insert that keeps an entry the path already has
cache_insert_keep_first(c, p, size, mtime, hash) ==
    [q \in DOMAIN c \cup {p} |->
        IF q \in DOMAIN c THEN c[q]
        ELSE [size |-> size,
              mtime_secs |-> system_time_to_secs_nanos(mtime)[1],
              mtime_nanos |-> system_time_to_secs_nanos(mtime)[2],
              hash |-> hash]]

\* HashCache::insert
cache_insert(c, p, size, mtime, hash) ==
    [q \in DOMAIN c \cup {p} |->
        IF q = p
        THEN [size |-> size,
              mtime_secs |-> system_time_to_secs_nanos(mtime)[1],
              mtime_nanos |-> system_time_to_secs_nanos(mtime)[2],
              hash |-> hash]
        ELSE c[q]]

(***************************************************************************)
(* Build: selection, per-file processing, store insertion.                 *)
(***************************************************************************)
None == [some |-> FALSE, val |-> <<>>]
Some(v) == [some |-> TRUE, val |-> v]

\* the directories build captures from: basename equal to a tracked name,
\* outside .kibo and outside ignored directories
found_dirs(w, config) ==
    {d \in Walk(w, <<>>, LAMBDA e : file_name(e) # N_kibo
                                    /\ ~should_ignore(config.ignore, e)) :
        /\ NodeAt(w, d).kind = "dir"
        /\ \E i \in 1..Len(config.directories) : file_name(d) = config.directories[i]}

\* snapshot::collect_files, as the set of selected paths
collect_files(w, config) ==
    LET fromDirs ==
            UNION {{p \in Walk(w, d, LAMBDA e : ~should_ignore(config.ignore, e)) :
                        NodeAt(w, p).kind # "dir"} : d \in found_dirs(w, config)}
        fromPatterns ==
            UNION {{p \in GlobPaths(w, config.files[i]) :
                        /\ Stat(w, p).kind # "dir"
                        /\ ~IsPrefixSeq(<<N_kibo>>, p)
                        /\ ~should_ignore(config.ignore, p)} :
                   i \in 1..Len(config.files)}
    IN fromDirs \cup fromPatterns

\* a Vec that keeps every candidate, also one seen before
Dedup_none(seq) == seq

RECURSIVE Dedup(_)
\* seen_paths.insert(path): a candidate is pushed the first time only
Dedup(seq) ==
    IF seq = <<>> THEN <<>>
    ELSE LET front == Dedup(SubSeq(seq, 1, Len(seq) - 1))
         IN IF \E i \in 1..Len(front) : front[i] = seq[Len(seq)]
            THEN front
            ELSE Append(front, seq[Len(seq)])

RECURSIVE found_dirs_vec(_, _, _)
\* found_dirs as the Vec the first walks fill: one walk per tracked name
found_dirs_vec(w, config, i) ==
    IF i > Len(config.directories) THEN <<>>
    ELSE Sorted({d \in found_dirs(w, config) : file_name(d) = config.directories[i]})
         \o found_dirs_vec(w, config, i + 1)

RECURSIVE dir_candidates(_, _, _, _)
\* the non-directory entries the second walks yield, directory by directory
dir_candidates(w, config, dirs, i) ==
    IF i > Len(dirs) THEN <<>>
    ELSE Sorted({p \in Walk(w, dirs[i], LAMBDA e : ~should_ignore(config.ignore, e)) :
                    NodeAt(w, p).kind # "dir"})
         \o dir_candidates(w, config, dirs, i + 1)

RECURSIVE pattern_candidates(_, _, _)
\* the paths glob() yields, pattern by pattern, that pass the three tests
pattern_candidates(w, config, i) ==
    IF i > Len(config.files) THEN <<>>
    ELSE Sorted({p \in GlobPaths(w, config.files[i]) :
                    /\ Stat(w, p).kind # "dir"
                    /\ ~IsPrefixSeq(<<N_kibo>>, p)
                    /\ ~should_ignore(config.ignore, p)})
         \o pattern_candidates(w, config, i + 1)

\* snapshot::collect_files, as the Vec it returns
collect_files_vec(w, config) ==
    Dedup(dir_candidates(w, config, found_dirs_vec(w, config, 1), 1)
          \o pattern_candidates(w, config, 1))

\* snapshot::collect_directories: path -> DirectoryEntry
collect_directories(w, config) ==
    LET dirs == UNION {{p \in Walk(w, d, LAMBDA e : TRUE) :
                          /\ NodeAt(w, p).kind = "dir"
                          /\ ~should_ignore(config.ignore, p)} :
                       d \in found_dirs(w, config)}
    IN [d \in dirs |->
          [mode |-> st_mode(Stat(w, d)),
           mtime_secs |-> mtime_or_zero(Stat(w, d).mtime)[1],
           mtime_nanos |-> mtime_or_zero(Stat(w, d).mtime)[2]]]

\* the FileEntry process_file builds from the lstat result
FileEntry(hash, size, node, is_symlink) ==
    [hash |-> hash, size |-> size, mode |-> st_mode(node),
     is_symlink |-> is_symlink,
     symlink_target |-> IF is_symlink THEN Some(node.bytes) ELSE None,
     mtime_secs |-> mtime_or_zero(node.mtime)[1],
     mtime_nanos |-> mtime_or_zero(node.mtime)[2]]

\* process_file on a regular file: the cached hash on a hit, else the file
\* is read and hashed and the cache updated
process_regular(c, p, node, hit) ==
    IF hit.some
    THEN [ok |-> TRUE, entry |-> FileEntry(hit.hash, Len(node.bytes), node, FALSE),
          cache |-> c]
    ELSE IF ~Readable(node)
    THEN [ok |-> FALSE, entry |-> <<>>, cache |-> c]
    ELSE [ok |-> TRUE,
          entry |-> FileEntry(hash_file(node.bytes), Len(node.bytes), node, FALSE),
          cache |-> cache_insert(c, p, Len(node.bytes), node.mtime,
                                 hash_file(node.bytes))]

\* a process_file that records the length of the target as a symlink's size
process_node_sized(c, p, node) ==
    IF node.kind = "symlink"
    THEN [ok |-> TRUE,
          entry |-> FileEntry(hash_symlink(node.bytes), Len(node.bytes), node, TRUE),
          cache |-> c]
    ELSE process_regular(c, p, node, cache_get(c, p, Len(node.bytes), node.mtime))

\* process_file after symlink_metadata
process_node(c, p, node) ==
    IF node.kind = "none"
    THEN [ok |-> FALSE, entry |-> <<>>, cache |-> c]
    ELSE IF node.kind = "symlink"
    THEN [ok |-> TRUE, entry |-> FileEntry(hash_symlink(node.bytes), 0, node, TRUE),
          cache |-> c]
    ELSE process_regular(c, p, node, cache_get(c, p, Len(node.bytes), node.mtime))

\* snapshot::process_file: Ok/Err, the FileEntry and the cache afterwards
process_file(w, c, p) == process_node(c, p, NodeAt(w, p))

\* the orders in which a set can be enumerated
Orders(S) ==
    {o \in [1..Cardinality(S) -> S] :
        \A i, j \in 1..Cardinality(S) : o[i] = o[j] => i = j}

RECURSIVE ProcessAll(_, _, _)
\* the parallel map of process_file over the selected files: the cache after
\* all workers (each path has its own key)
ProcessAll(w, c, S) ==
    IF S = {} THEN c
    ELSE LET p == CHOOSE q \in S : TRUE
         IN ProcessAll(w, process_file(w, c, p).cache, S \ {p})

EmptyManifest(name) ==
    [name |-> name, tracked_directories |-> <<>>, tracked_files |-> <<>>,
     ignored_patterns |-> <<>>, directories |-> [d \in {} |-> 0],
     files |-> [p \in {} |-> 0], total_size |-> 0, file_count |-> 0]

\* Manifest::add_file
add_file(m, p, entry) ==
    [m EXCEPT !.total_size = @ + entry.size,
              !.file_count = @ + 1,
              !.files = [q \in DOMAIN m.files \cup {p} |->
                           IF q = p THEN entry ELSE m.files[q]]]

\* one iteration of the store loop: store_symlink or store_file on the path
store_entry(st, level, entry, node) ==
    IF entry.is_symlink
    THEN store_symlink(st, entry.symlink_target.val, entry.hash)
    ELSE store_file(st, level,
                    [ok |-> Readable(node) /\ node.kind = "file", bytes |-> node.bytes],
                    entry.hash)

\* the bookkeeping of one iteration: s is what the store call returned
store_step(acc, r, s) ==
    [ok |-> s.ok, store |-> s.store, cache |-> acc.cache,
     manifest |-> IF s.ok THEN add_file(acc.manifest, r.path, r.r.entry)
                  ELSE acc.manifest,
     new_blobs |-> acc.new_blobs + (IF s.ok /\ s.ret THEN 1 ELSE 0),
     reused_blobs |-> acc.reused_blobs + (IF s.ok /\ ~s.ret THEN 1 ELSE 0)]

RECURSIVE StoreAll(_, _, _, _, _)
\* the store loop of create_snapshot over the scan results, in order; the
\* first failed store call ends the build
StoreAll(acc, w, level, results, i) ==
    IF i > Len(results) \/ ~acc.ok THEN acc
    ELSE StoreAll(store_step(acc, results[i],
                             store_entry(acc.store, level, results[i].r.entry,
                                         Stat(w, results[i].path))),
                  w, level, results, i + 1)

\* Config::effective_compression_level
effective_compression_level(config) ==
    Min(config.compression_level, MaxCompressionLevel)

\* the end of create_snapshot: the cache is saved only when the store loop
\* went through
finish_build(done, c1) == IF done.ok THEN [done EXCEPT !.cache = c1] ELSE done

\* snapshot::create_snapshot.  order is the order in which the walk yields
\* the selected files; files whose processing failed are left out.
create_snapshot(w, st, c, name, config, order) ==
    finish_build(
        StoreAll([ok |-> TRUE, store |-> st, cache |-> c,
                  manifest |-> [EmptyManifest(name) EXCEPT
                                  !.tracked_directories = config.directories,
                                  !.tracked_files = config.files,
                                  !.ignored_patterns = config.ignore,
                                  !.directories = collect_directories(w, config)],
                  new_blobs |-> 0, reused_blobs |-> 0],
                 w, effective_compression_level(config),
                 SelectSeq([i \in 1..Len(order) |->
                              [path |-> order[i], r |-> process_file(w, c, order[i])]],
                           LAMBDA x : x.r.ok),
                 1),
        ProcessAll(w, c, collect_files(w, config)))

(***************************************************************************)
(* Restore.                                                                *)
(***************************************************************************)
EmptyStats ==
    [files_loaded |-> 0, copies |-> 0, unchanged |-> 0, symlinks |-> 0,
     removed |-> 0, copied_files |-> <<>>, unchanged_files |-> <<>>,
     symlink_files |-> <<>>, removed_files |-> <<>>]

\* a verification that accepts every manifest
verify_snapshot_skipped(m, st) == TRUE

\* load::verify_snapshot
verify_snapshot(m, st) ==
    \A p \in DOMAIN m.files : has_blob(st, m.files[p].hash)

\* load::find_tracked_directory_roots
find_tracked_directory_roots(w, m) ==
    IF m.tracked_directories = <<>> THEN {}
    ELSE {d \in Walk(w, <<>>, LAMBDA e : file_name(e) # N_kibo
                                         /\ ~(file_name(e)[1] = "."
                                              /\ file_name(e) # <<".">>)) :
            /\ NodeAt(w, d).kind = "dir"
            /\ \E i \in 1..Len(m.tracked_directories) :
                   file_name(d) = m.tracked_directories[i]}

\* the scan roots cleanup_stale_files infers from the manifest's file paths:
\* the prefix of a path up to its first component equal to a tracked name
inferred_roots(m) ==
    {SubSeq(p, 1, k) : <<p, k>> \in
        {pk \in UNION {{<<q, j>> : j \in 1..Len(q)} : q \in DOMAIN m.files} :
            /\ \E i \in 1..Len(m.tracked_directories) :
                   pk[1][pk[2]] = m.tracked_directories[i]
                   /\ \A j \in 1..(pk[2] - 1) :
                          pk[1][j] # m.tracked_directories[i]}}

\* a cleanup that unlinks the stale file in a dry run too
RemoveStale_always(acc, p, dry_run) ==
    [ws |-> Unlink(acc.ws, p),
     stats |-> [acc.stats EXCEPT !.removed = @ + 1,
                                 !.removed_files = Append(@, p)]]

\* one stale file is reported and, unless dry_run, unlinked
RemoveStale(acc, p, dry_run) ==
    [ws |-> IF dry_run THEN acc.ws ELSE Unlink(acc.ws, p),
     stats |-> [acc.stats EXCEPT !.removed = @ + 1,
                                 !.removed_files = Append(@, p)]]

RECURSIVE StaleSeq(_, _, _, _)
StaleSeq(acc, seq, i, dry_run) ==
    IF i > Len(seq) THEN acc
    ELSE StaleSeq(RemoveStale(acc, seq[i], dry_run), seq, i + 1, dry_run)

RECURSIVE StaleInDirs(_, _, _, _)
\* the tracked-directory pass of cleanup_stale_files
StaleInDirs(acc, m, roots, dry_run) ==
    IF roots = {} THEN acc
    ELSE LET d == CHOOSE r \in roots : TRUE
             stale == IF Stat(acc.ws, d).kind = "none" THEN {}
                      ELSE {p \in Walk(acc.ws, d,
                                       LAMBDA e : file_name(e) # N_kibo
                                                  /\ ~should_ignore(m.ignored_patterns, e)) :
                               /\ NodeAt(acc.ws, p).kind # "dir"
                               /\ p \notin DOMAIN m.files}
         IN StaleInDirs(StaleSeq(acc, Sorted(stale), 1, dry_run), m, roots \ {d}, dry_run)

\* Path::is_file, links followed
is_file(w, st, p) ==
    IF IsStorePath(Resolve(w, p))
    THEN has_blob(st, StoreHashOf(Resolve(w, p)))
    ELSE Stat(w, p).kind = "file"

RECURSIVE StaleGlob(_, _, _, _, _, _)
\* the matches of one tracked file pattern, tested and unlinked one by one
StaleGlob(acc, m, st, seq, i, dry_run) ==
    IF i > Len(seq) THEN acc
    ELSE LET p == seq[i]
             stale == /\ is_file(acc.ws, st, p)
                      /\ p \notin DOMAIN m.files
                      /\ ~IsPrefixSeq(<<N_kibo>>, p)
                      /\ ~should_ignore(m.ignored_patterns, p)
         IN StaleGlob(IF stale THEN RemoveStale(acc, p, dry_run) ELSE acc,
                      m, st, seq, i + 1, dry_run)

RECURSIVE StaleInPatterns(_, _, _, _, _)
\* the file-pattern pass of cleanup_stale_files
StaleInPatterns(acc, m, st, i, dry_run) ==
    IF i > Len(m.tracked_files) THEN acc
    ELSE StaleInPatterns(
            StaleGlob(acc, m, st, Sorted(GlobPaths(acc.ws, m.tracked_files[i])), 1, dry_run),
            m, st, i + 1, dry_run)

\* load::cleanup_stale_files; st is the blob store under the root, which a
\* symlink of the workspace can lead into
cleanup_stale_files(w, st, stats, m, dry_run) ==
    StaleInPatterns(
        StaleInDirs([ws |-> w, stats |-> stats], m,
                    find_tracked_directory_roots(w, m) \cup inferred_roots(m),
                    dry_run),
        m, st, 1, dry_run)

\* every ancestor directory of a manifest file, the root excluded
required_dirs(m) ==
    UNION {{SubSeq(p, 1, k) : k \in 1..(Len(p) - 1)} : p \in DOMAIN m.files}

RECURSIVE RemoveEmpty(_, _, _, _)
RemoveEmpty(w, m, dirs, depth) ==
    IF depth = 0 THEN w
    ELSE LET level == {d \in dirs : Len(d) = depth}
             gone == {d \in level : /\ d \notin required_dirs(m)
                                    /\ NodeAt(w, d).kind = "dir"
                                    /\ Children(w, d) = {}}
             w1 == [p \in WsPaths |-> IF p \in gone THEN NoNode ELSE w[p]]
             touched == {Parent(d) : d \in gone} \cap WsPaths
         IN RemoveEmpty([p \in WsPaths |->
                           IF p \in touched /\ w1[p].kind = "dir"
                           THEN [w1[p] EXCEPT !.mtime = Now] ELSE w1[p]],
                        m, dirs, depth - 1)

\* load::cleanup_empty_directories: deepest first
cleanup_empty_directories(w, m, dry_run) ==
    LET dirs == UNION {{p \in Walk(w, d, LAMBDA e : TRUE) :
                          /\ NodeAt(w, p).kind = "dir"
                          /\ ~IsPrefixSeq(<<N_kibo>>, p)} :
                       d \in find_tracked_directory_roots(w, m)}
    IN IF dry_run THEN w
       ELSE RemoveEmpty(w, m, dirs, Len(WsPathSeq))

\* chmod of the entry a path resolves to
chmod_at(w, t, mode) ==
    IF NodeAt(w, t).kind = "none" \/ t \notin WsPaths
    THEN [ok |-> FALSE, ws |-> w]
    ELSE [ok |-> TRUE, ws |-> [w EXCEPT ![t].mode = PermBits(mode)]]

\* fs_utils::set_file_mode: chmod, links followed
set_file_mode(w, p, mode) == chmod_at(w, Resolve(w, p), mode)

\* utimes of the entry a path resolves to
utime_at(w, t, mtime) ==
    IF NodeAt(w, t).kind = "none" \/ t \notin WsPaths
    THEN [ok |-> FALSE, ws |-> w]
    ELSE [ok |-> TRUE, ws |-> [w EXCEPT ![t].mtime = mtime]]

\* fs_utils::set_file_mtime: links followed
set_file_mtime(w, p, secs, nanos) ==
    utime_at(w, Resolve(w, p), from_unix_time(secs, nanos))

\* the mtime of a directory is set only if its mode could be set
stamp_dir(a, d, entry) ==
    IF ~a.ok THEN a
    ELSE set_file_mtime(a.ws, d, entry.mtime_secs, entry.mtime_nanos)

\* one iteration of restore_directories: create if missing, mode, mtime
restore_dir(w, d, entry) ==
    stamp_dir(set_file_mode(IF Stat(w, d).kind = "none" THEN create_dir_all(w, d) ELSE w,
                            d, entry.mode),
              d, entry)

RECURSIVE RestoreDirs(_, _, _, _)
RestoreDirs(acc, m, seq, i) ==
    IF i > Len(seq) \/ ~acc.ok THEN acc
    ELSE RestoreDirs(restore_dir(acc.ws, seq[i], m.directories[seq[i]]), m, seq, i + 1)

\* the paths of a set, shallowest first
ByDepth(S) ==
    LET seq == Sorted(S)
        rank(i) == Cardinality({j \in 1..Len(seq) :
                        Len(seq[j]) < Len(seq[i])
                        \/ (Len(seq[j]) = Len(seq[i]) /\ j < i)})
    IN [k \in 1..Len(seq) |-> seq[CHOOSE i \in 1..Len(seq) : rank(i) = k - 1]]

\* load::restore_directories
restore_directories(w, m, dry_run) ==
    IF DOMAIN m.directories = {} \/ dry_run THEN [ok |-> TRUE, ws |-> w]
    ELSE RestoreDirs([ok |-> TRUE, ws |-> w], m, ByDepth(DOMAIN m.directories), 1)

\* load::scan_existing_files_in_manifest: path -> current hash
scan_existing_files_in_manifest(w, m) ==
    LET present == {p \in DOMAIN m.files :
                       /\ NodeAt(w, p).kind # "none"
                       /\ (NodeAt(w, p).kind = "symlink"
                           \/ (NodeAt(w, p).kind = "file" /\ Readable(NodeAt(w, p))))}
    IN [p \in present |->
          IF NodeAt(w, p).kind = "symlink" THEN hash_symlink(NodeAt(w, p).bytes)
          ELSE hash_file(NodeAt(w, p).bytes)]

\* File::create and the write, on the entry a path resolves to
write_at(w, t, bytes) ==
    IF t \notin WsPaths \/ NodeAt(w, t).kind = "dir"
       \/ (NodeAt(w, t).kind = "file" /\ ~Writable(NodeAt(w, t)))
       \/ (NodeAt(w, t).kind = "none" /\ NodeAt(w, Parent(t)).kind # "dir")
    THEN [ok |-> FALSE, ws |-> w]
    ELSE IF NodeAt(w, t).kind = "none"
    THEN [ok |-> TRUE,
          ws |-> TouchDir([w EXCEPT ![t] = [kind |-> "file", bytes |-> bytes,
                                            mode |-> DefaultFileMode, mtime |-> Now]],
                          Parent(t))]
    ELSE [ok |-> TRUE, ws |-> [w EXCEPT ![t].bytes = bytes, ![t].mtime = Now]]

\* File::create(dst) and the write of the bytes, links followed
WriteThrough(w, dst, bytes) == write_at(w, Resolve(w, dst), bytes)

\* symlink() after the parent was created and an existing entry removed
symlink_at(w1, target, link) ==
    IF NodeAt(w1, link).kind = "dir" THEN [ok |-> FALSE, ws |-> w1]
    ELSE [ok |-> TRUE,
          ws |-> TouchDir([w1 EXCEPT ![link] = [kind |-> "symlink", bytes |-> target,
                                                mode |-> 511, mtime |-> Now]],
                          Parent(link))]

\* fs_utils::create_symlink
create_symlink(w, target, link) ==
    symlink_at(create_dir_all(w, Parent(link)), target, link)

\* a count that raises the counters and forgets the path
Count_unlisted(stats, counter, list, p) ==
    [stats EXCEPT ![counter] = @ + 1, !.files_loaded = @ + 1]

\* one entry accounted for under the lock of the statistics
Count(stats, counter, list, p) ==
    [stats EXCEPT ![counter] = @ + 1, !.files_loaded = @ + 1,
                  ![list] = Append(@, p)]

\* a collection of the workers' results that reports the last one only
Merge_last(ok, f, stats) ==
    [ok |-> f.ok, ws |-> f.ws, store |-> f.store, stats |-> stats]

\* the result of a worker: ok so far, the file system, the statistics
Merge(ok, f, stats) ==
    [ok |-> ok /\ f.ok, ws |-> f.ws, store |-> f.store, stats |-> stats]

WithStore(x, st) == [ok |-> x.ok, ws |-> x.ws, store |-> st]

\* a symlink entry is recreated from the target string the store returns
relink(acc, w1, p, t) ==
    IF ~t.ok THEN [acc EXCEPT !.ok = FALSE, !.ws = w1]
    ELSE Merge(acc.ok, WithStore(create_symlink(w1, t.target, p), acc.store),
               IF NodeAt(w1, p).kind = "dir" THEN acc.stats
               ELSE Count(acc.stats, "symlinks", "symlink_files", p))

\* the symlink branch of load_single_file
load_symlink(acc, w0, p, entry, same, dry_run) ==
    IF ~entry.symlink_target.some THEN [acc EXCEPT !.ws = w0]
    ELSE IF same
    THEN [acc EXCEPT !.ws = w0,
                     !.stats = Count(@, "unchanged", "unchanged_files", p)]
    ELSE IF dry_run
    THEN [acc EXCEPT !.stats = Count(@, "symlinks", "symlink_files", p)]
    ELSE IF NodeAt(w0, p).kind = "dir"
    THEN [acc EXCEPT !.ok = FALSE, !.ws = w0]
    ELSE relink(acc, IF NodeAt(w0, p).kind # "none" THEN Unlink(w0, p) ELSE w0, p,
                retrieve_symlink_target(acc.store, entry.hash))

\* File::create(dst) and the write, when dst leads to the file of the store
\* that holds hash h: an existing blob is truncated and rewritten if its
\* mode allows writing (emptied when it is the very blob being copied)
WriteBlobThrough(w, st, h, src_hash, bytes) ==
    IF blob_path(h).rest = <<>> \/ blob_path(h).prefix \notin DOMAIN st
    THEN [ok |-> FALSE, ws |-> w, store |-> st]
    ELSE IF ~has_blob(st, h)
    THEN [ok |-> TRUE, ws |-> w, store |-> PutBlob(st, h, bytes, DefaultFileMode)]
    ELSE IF ~Writable(st[blob_path(h).prefix][blob_path(h).rest])
    THEN [ok |-> FALSE, ws |-> w, store |-> st]
    ELSE [ok |-> TRUE, ws |-> w,
          store |-> PutBlob(st, h, IF h = src_hash THEN <<>> ELSE bytes,
                            st[blob_path(h).prefix][blob_path(h).rest].mode)]

\* the destination of the copy is opened and written only if the blob could
\* be opened; a failed decode leaves what was written so far
copy_to(st, w0, p, hash, c, t) ==
    IF ~c.wrote THEN [ok |-> FALSE, ws |-> w0, store |-> st]
    ELSE IF IsStorePath(t)
    THEN Merge(c.ok, WriteBlobThrough(w0, st, StoreHashOf(t), hash, c.out), <<>>)
    ELSE Merge(c.ok, WithStore(write_at(w0, t, c.out), st), <<>>)

\* the copy of load_single_file: Store::copy_blob_to_file onto the path
CopyOnto(st, w0, p, entry) ==
    copy_to(st, w0, p, entry.hash, copy_blob_to_file(st, entry.hash), Resolve(w0, p))

\* chmod of a blob a workspace symlink leads to
chmod_blob(f, h, mode) ==
    IF has_blob(f.store, h) /\ blob_path(h).rest # <<>>
    THEN [ok |-> TRUE, ws |-> f.ws,
          store |-> PutBlob(f.store, h, BlobBytes(f.store, h), PermBits(mode))]
    ELSE [ok |-> FALSE, ws |-> f.ws, store |-> f.store]

stamp_mtime(a, st, p, entry) ==
    IF ~a.ok THEN WithStore(a, st)
    ELSE WithStore(set_file_mtime(a.ws, p, entry.mtime_secs, entry.mtime_nanos), st)

stamp_at(f, p, entry, t) ==
    IF IsStorePath(t) THEN chmod_blob(f, StoreHashOf(t), entry.mode)
    ELSE stamp_mtime(chmod_at(f.ws, t, entry.mode), f.store, p, entry)

\* set_file_mode then set_file_mtime on the path of a regular-file entry;
\* both follow links, into the store too
Stamp(f, p, entry) == stamp_at(f, p, entry, Resolve(f.ws, p))

\* after the copy: its failure is the worker's error, else mode and mtime
after_copy(acc, copied, p, entry) ==
    IF ~copied.ok THEN Merge(FALSE, copied, acc.stats)
    ELSE Merge(acc.ok, Stamp(copied, p, entry),
               Count(acc.stats, "copies", "copied_files", p))

\* the regular-file branch of load_single_file: the copy when the hash
\* differs, then mode and mtime whether or not a copy was made
load_regular(acc, w0, p, entry, same, dry_run) ==
    IF dry_run
    THEN [acc EXCEPT !.stats = IF same THEN Count(@, "unchanged", "unchanged_files", p)
                                ELSE Count(@, "copies", "copied_files", p)]
    ELSE IF same
    THEN Merge(acc.ok, Stamp([ws |-> w0, store |-> acc.store], p, entry),
               Count(acc.stats, "unchanged", "unchanged_files", p))
    ELSE after_copy(acc, CopyOnto(acc.store, w0, p, entry), p, entry)

load_entry(acc, w0, p, entry, same, dry_run) ==
    IF entry.is_symlink
    THEN load_symlink(acc, w0, p, entry, same, dry_run)
    ELSE load_regular(acc, w0, p, entry, same, dry_run)

\* load::load_single_file
load_single_file(acc, p, entry, existing, dry_run) ==
    load_entry(acc, IF dry_run THEN acc.ws ELSE create_dir_all(acc.ws, Parent(p)),
               p, entry, p \in DOMAIN existing /\ existing[p] = entry.hash, dry_run)

RECURSIVE LoadEach(_, _, _, _, _, _)
LoadEach(acc, m, existing, dry_run, order, i) ==
    IF i > Len(order) THEN acc
    ELSE LoadEach(load_single_file(acc, order[i], m.files[order[i]],
                                   existing, dry_run),
                  m, existing, dry_run, order, i + 1)

\* load::load_files: the hashes of the existing files are taken first, then
\* every entry is restored by a worker; order is the order in which the
\* workers happen to run, and every worker runs even when another failed
load_files(w, stats, m, st, dry_run, order) ==
    LoadEach([ok |-> TRUE, ws |-> w, store |-> st, stats |-> stats], m,
             scan_existing_files_in_manifest(w, m), dry_run, order, 1)

\* load_snapshot from the directory phase on
after_directories(c, stats, m, st, dry_run, order) ==
    IF ~c.ok THEN [ok |-> FALSE, ws |-> c.ws, store |-> st, stats |-> stats]
    ELSE load_files(c.ws, stats, m, st, dry_run, order)

\* load_snapshot after the stale files were removed
after_cleanup(a, m, st, dry_run, order) ==
    after_directories(
        restore_directories(cleanup_empty_directories(a.ws, m, dry_run), m, dry_run),
        a.stats, m, st, dry_run, order)

\* load::load_snapshot, from Store::new(root) on
load_snapshot(w, st, m, dry_run, order) ==
    IF ~verify_snapshot(m, st)
    THEN [ok |-> FALSE, ws |-> w, store |-> st, stats |-> EmptyStats]
    ELSE after_cleanup(cleanup_stale_files(w, st, EmptyStats, m, dry_run),
                       m, st, dry_run, order)

(***************************************************************************)
(* Commands.                                                               *)
(***************************************************************************)
\* manifest::list_snapshots
list_snapshots(ms) == {ms[n] : n \in DOMAIN ms}

\* a live set that forgets the blobs of symlink entries
referenced_hashes_regular(ms) ==
    UNION {{m.files[p].hash : p \in {q \in DOMAIN m.files : ~m.files[q].is_symlink}} :
           m \in {ms[n] : n \in DOMAIN ms}}

\* the live set of cmd_prune and cmd_remove
referenced_hashes(ms) ==
    UNION {{m.files[p].hash : p \in DOMAIN m.files} : m \in list_snapshots(ms)}

\* Manifest::delete
manifest_delete(ms, names) == [n \in DOMAIN ms \ names |-> ms[n]]

\* Manifest::save
manifest_save(ms, m) ==
    [n \in DOMAIN ms \cup {m.name} |-> IF n = m.name THEN m ELSE ms[n]]

\* the end of cmd_save: manifest.save after a build that succeeded
finish_save(ms1, b) ==
    [ok |-> b.ok, store |-> b.store, cache |-> b.cache,
     manifests |-> IF b.ok THEN manifest_save(ms1, b.manifest) ELSE ms1,
     new_blobs |-> b.new_blobs]

\* main::cmd_save with the overwrite confirmed: the manifest of that name is
\* deleted, the snapshot built, the manifest written
cmd_save(w, st, c, ms, name, config, order) ==
    finish_save(manifest_delete(ms, {name}),
                create_snapshot(w, st, c, name, config, order))

\* main::cmd_prune
cmd_prune(st, ms) == garbage_collect(st, referenced_hashes(ms))

\* the sweep of cmd_remove after the manifests were deleted
remove_sweep(ms1, gc) ==
    [store |-> gc.store, manifests |-> ms1, removed |-> gc.removed]

\* a remove that computes the live set before it deletes the manifests
cmd_remove_live_before(st, ms, names) ==
    IF names \cap DOMAIN ms = {}
    THEN [store |-> st, manifests |-> ms, removed |-> 0]
    ELSE remove_sweep(manifest_delete(ms, names),
                      garbage_collect(st, referenced_hashes(ms)))

\* main::cmd_remove
cmd_remove(st, ms, names) ==
    IF names \cap DOMAIN ms = {}
    THEN [store |-> st, manifests |-> ms, removed |-> 0]
    ELSE remove_sweep(manifest_delete(ms, names),
                      garbage_collect(st, referenced_hashes(manifest_delete(ms, names))))

(***************************************************************************)
(* The repository as a state machine: one action per command, and the      *)
(* user's edits of the workspace between commands.                         *)
(***************************************************************************)
File(bytes, mode, mtime) ==
    [kind |-> "file", bytes |-> bytes, mode |-> mode, mtime |-> mtime]
Link(target) ==
    [kind |-> "symlink", bytes |-> target, mode |-> 511, mtime |-> 1]
Dir(mtime) ==
    [kind |-> "dir", bytes |-> <<>>, mode |-> DefaultDirMode, mtime |-> mtime]

Tree(cfg, a, b) ==
    [p \in WsPaths |->
        CASE p = P_cfg -> cfg
          [] p = P_src -> Dir(2)
          [] p = P_a -> a
          [] p = P_b -> b
          [] OTHER -> NoNode]

\* the workspaces a behaviour can start from: plain files; a file last
\* modified before the epoch beside a symlink; a file that starts with the
\* magic bytes beside one its owner cannot read
InitWorkspaces ==
    { Tree(File(<<"b">>, DefaultFileMode, 2),
           File(<<"a">>, DefaultFileMode, 3),
           File(<<"b">>, DefaultFileMode, 3)),
      Tree(File(<<"b">>, DefaultFileMode, 2),
           File(<<"a", "a">>, DefaultFileMode, -1),
           Link(<<"a">>)),
      Tree(File(<<"a">>, DefaultFileMode, 2),
           File(<<"K", "B", "C", "P", "Z", "3", "a">>, DefaultFileMode, 3),
           File(<<"b">>, 0, 3)) }

\* the selection policies and compression levels of .kiborc
Policies ==
    << [directories |-> <<N_src>>, files |-> <<>>, ignore |-> <<>>,
        compression_level |-> DEFAULT_COMPRESSION_LEVEL],
       [directories |-> <<N_src>>, files |-> <<N_cfg>>, ignore |-> <<>>,
        compression_level |-> 0] >>

SnapNames == {"s1", "s2"}

\* what is remembered of the last command or call: its arguments and what
\* it returned
NoCmd ==
    [cmd |-> "none", name |-> "", ok |-> TRUE, dry_run |-> FALSE, policy |-> 0,
     stats |-> EmptyStats, new_blobs |-> 0, removed |-> 0, freed |-> 0,
     hash |-> <<>>, bytes |-> <<>>, level |-> 0, ret |-> FALSE, out |-> <<>>,
     live |-> {}, path |-> <<>>, size |-> 0, mtime |-> 0, names |-> {},
     pc |-> "idle", todo |-> {}, existing |-> <<>>, writers |-> <<>>,
     hashers |-> <<>>, mutex |-> {}, entries |-> <<>>]

Snap == [ws |-> ws, store |-> store, manifests |-> manifests,
         cache |-> cache, last |-> last]

Init ==
    /\ ws \in InitWorkspaces
    /\ store = [p \in {} |-> EmptyDir]
    /\ manifests = [n \in {} |-> 0]
    /\ cache = EmptyCache
    /\ last = NoCmd
    /\ pre = [ws |-> ws, store |-> [p \in {} |-> EmptyDir],
              manifests |-> [n \in {} |-> 0], cache |-> EmptyCache, last |-> NoCmd]
    /\ steps = 0

\* every action is one step of the behaviour and leaves a copy of the state
\* it started from
Step ==
    /\ steps' = steps + 1
    /\ pre' = Snap

\* kibo save <name>
Save ==
    /\ steps < MaxSteps
    /\ \E name \in SnapNames, k \in 1..Len(Policies) :
      \E order \in Orders(collect_files(ws, Policies[k])) :
        \E r \in {cmd_save(ws, store, cache, manifests, name, Policies[k], order)} :
           /\ Step
           /\ store' = r.store
           /\ cache' = r.cache
           /\ manifests' = r.manifests
           /\ last' = [NoCmd EXCEPT !.cmd = "save", !.name = name, !.ok = r.ok,
                                    !.policy = k, !.new_blobs = r.new_blobs]
           /\ UNCHANGED ws

\* kibo load <name> [--dry-run]
Load ==
    /\ steps < MaxSteps
    /\ \E name \in DOMAIN manifests, dry_run \in BOOLEAN :
      \E order \in Orders(DOMAIN manifests[name].files) :
        \E r \in {load_snapshot(ws, store, manifests[name], dry_run, order)} :
           /\ Step
           /\ ws' = r.ws
           /\ store' = r.store
           /\ last' = [NoCmd EXCEPT !.cmd = "load", !.name = name, !.ok = r.ok,
                                    !.dry_run = dry_run, !.stats = r.stats]
           /\ UNCHANGED <<manifests, cache>>

\* kibo rm <name>...
Remove ==
    /\ steps < MaxSteps
    /\ \E names \in SUBSET SnapNames \ {{}} :
      \E r \in {cmd_remove(store, manifests, names)} :
           /\ Step
           /\ store' = r.store
           /\ manifests' = r.manifests
           /\ last' = [NoCmd EXCEPT !.cmd = "remove", !.names = names,
                                    !.removed = r.removed,
                                    !.ok = names \cap DOMAIN manifests # {}]
           /\ UNCHANGED <<ws, cache>>

\* kibo prune
Prune ==
    /\ steps < MaxSteps
    /\ \E r \in {cmd_prune(store, manifests)} :
       /\ Step
       /\ store' = r.store
       /\ last' = [NoCmd EXCEPT !.cmd = "prune", !.removed = r.removed]
       /\ UNCHANGED <<ws, manifests, cache>>

\* the user rewrites a file, the new content stamped with the clock's time or
\* (a write within the same clock tick, or a tool that restores the time
\* stamp) with the time the file already carried
EditWrite ==
    /\ steps < MaxSteps
    /\ \E p \in {P_a, P_cfg}, bytes \in {<<"a">>, <<"b">>}, keep \in BOOLEAN :
        /\ ws[p].kind = "file"
        /\ ws[p].bytes # bytes
        /\ Step
        /\ ws' = [ws EXCEPT ![p].bytes = bytes,
                            ![p].mtime = IF keep THEN @ ELSE Now]
        /\ last' = [NoCmd EXCEPT !.cmd = "edit"]
        /\ UNCHANGED <<store, manifests, cache>>

\* the user replaces an entry by a symlink
EditSymlink ==
    /\ steps < MaxSteps
    /\ \E pt \in {<<P_a, <<"b">>>>, <<P_cfg, StoreLinkTarget>>} :
        /\ ws[pt[1]].kind = "file"
        /\ Step
        /\ ws' = TouchDir([ws EXCEPT ![pt[1]] = Link(pt[2])], Parent(pt[1]))
        /\ last' = [NoCmd EXCEPT !.cmd = "edit"]
        /\ UNCHANGED <<store, manifests, cache>>

Next == Save \/ Load \/ Remove \/ Prune \/ EditWrite \/ EditSymlink

Spec == Init /\ [][Next]_vars

(***************************************************************************)
(* The same repository when a blob can be lost behind the program's back   *)
(* (a damaged or partly copied .kibo directory).                           *)
(***************************************************************************)
LoseBlob ==
    /\ steps < MaxSteps
    /\ \E h \in StoredHashes(store) :
        /\ Step
        /\ store' = garbage_collect(store, StoredHashes(store) \ {h}).store
        /\ last' = [NoCmd EXCEPT !.cmd = "lose", !.hash = h]
        /\ UNCHANGED <<ws, manifests, cache>>

NextDamaged == Next \/ LoseBlob

SpecDamaged == Init /\ [][NextDamaged]_vars

(***************************************************************************)
(* The blob store on its own: any caller, any source, any hash.            *)
(***************************************************************************)
\* the contents handed to store_file, the targets handed to store_symlink
FileContents ==
    {<<"a">>, <<"K", "B", "C", "P", "x">>, <<"K", "B", "C", "P", "Z", "3", "a">>}
LinkTargets == {<<"a">>, <<"b">>}

\* the compression levels a store is opened with
StoreLevels == {0, DEFAULT_COMPRESSION_LEVEL, MaxCompressionLevel}

\* the hash a caller passes: that of the source, or one that is already
\* taken by other content
CallerHashes(bytes) == {Blake3(bytes), Blake3(<<"a">>)}

InitStore ==
    /\ ws = Tree(NoNode, NoNode, NoNode)
    /\ store = [p \in {} |-> EmptyDir]
    /\ manifests = [n \in {} |-> 0]
    /\ cache = EmptyCache
    /\ last = NoCmd
    /\ pre = [ws |-> ws, store |-> [p \in {} |-> EmptyDir],
              manifests |-> [n \in {} |-> 0], cache |-> EmptyCache, last |-> NoCmd]
    /\ steps = 0

\* Store::with_compression(root, level).store_file(src, hash)
StoreFileCall ==
    /\ steps < MaxSteps
    /\ \E bytes \in FileContents, level \in StoreLevels :
       \E hash \in CallerHashes(bytes) :
         \E r \in {store_file(store, level, [ok |-> TRUE, bytes |-> bytes], hash)} :
           /\ Step
           /\ store' = r.store
           /\ last' = [NoCmd EXCEPT !.cmd = "store_file", !.ok = r.ok, !.ret = r.ret,
                                    !.hash = hash, !.bytes = bytes, !.level = level]
           /\ UNCHANGED <<ws, manifests, cache>>

\* Store::store_symlink(target, hash)
StoreSymlinkCall ==
    /\ steps < MaxSteps
    /\ \E target \in LinkTargets :
       \E hash \in CallerHashes(target) :
         \E r \in {store_symlink(store, target, hash)} :
           /\ Step
           /\ store' = r.store
           /\ last' = [NoCmd EXCEPT !.cmd = "store_symlink", !.ok = r.ok,
                                    !.ret = r.ret, !.hash = hash, !.bytes = target]
           /\ UNCHANGED <<ws, manifests, cache>>

\* Store::copy_blob_to_file(hash, dst) onto a fresh destination, by a store
\* opened with any level
CopyBlobCall ==
    /\ steps < MaxSteps
    /\ \E hash \in StoredHashes(store), level \in StoreLevels :
         \E r \in {copy_blob_to_file(store, hash)} :
           /\ Step
           /\ last' = [NoCmd EXCEPT !.cmd = "copy", !.ok = r.ok, !.hash = hash,
                                    !.out = r.out, !.level = level]
           /\ UNCHANGED <<ws, store, manifests, cache>>

\* Store::garbage_collect(live_set)
GarbageCollectCall ==
    /\ steps < MaxSteps
    /\ \E live \in SUBSET {Blake3(b) : b \in FileContents} :
         \E r \in {garbage_collect(store, live)} :
           /\ Step
           /\ store' = r.store
           /\ last' = [NoCmd EXCEPT !.cmd = "gc", !.removed = r.removed,
                                    !.freed = r.freed, !.live = live]
           /\ UNCHANGED <<ws, manifests, cache>>

NextStore == StoreFileCall \/ StoreSymlinkCall \/ CopyBlobCall \/ GarbageCollectCall

SpecStore == InitStore /\ [][NextStore]_vars

(***************************************************************************)
(* Selection: workspaces with a file name at two depths, policies with     *)
(* root-anchored, bare and ** patterns and with ignore patterns, and       *)
(* entries the user creates after a save.                                  *)
(***************************************************************************)
Tree5(cfg, a, b, scfg) ==
    [p \in WsPaths |->
        CASE p = P_cfg -> cfg
          [] p = P_src -> Dir(2)
          [] p = P_a -> a
          [] p = P_b -> b
          [] p = P_scfg -> scfg
          [] OTHER -> NoNode]

\* two symlinks to one file beside it; no src/cfg yet; no cfg at the root
SelWorkspaces ==
    { Tree5(File(<<"b">>, DefaultFileMode, 2), File(<<"a", "a">>, DefaultFileMode, 3),
            Link(<<"a">>), Link(<<"a">>)),
      Tree5(File(<<"b">>, DefaultFileMode, 2), File(<<"a">>, DefaultFileMode, 3),
            File(<<"b">>, DefaultFileMode, 3), NoNode),
      Tree5(NoNode, File(<<"a">>, DefaultFileMode, 3), NoNode,
            File(<<"b">>, DefaultFileMode, 3)) }

\* the patterns ./cf?, cf? and src/**/cf? (with a wildcard in the last
\* component glob() takes the matches from the directory listing); the
\* ignore patterns */b (a glob), src/c (a prefix) and a (a component)
PatCfg == <<"c", "f", "?">>
PatRootCfg == <<".", "/">> \o PatCfg
PatDeepCfg == N_src \o <<"/", "*", "*", "/">> \o PatCfg
IgnGlobB == <<"*", "/", "b">>
IgnPrefixC == N_src \o <<"/", "c">>

SelPolicies ==
    << [directories |-> <<>>, files |-> <<PatRootCfg>>, ignore |-> <<>>,
        compression_level |-> DEFAULT_COMPRESSION_LEVEL],
       [directories |-> <<>>, files |-> <<PatCfg>>, ignore |-> <<>>,
        compression_level |-> DEFAULT_COMPRESSION_LEVEL],
       [directories |-> <<>>, files |-> <<PatDeepCfg>>, ignore |-> <<>>,
        compression_level |-> DEFAULT_COMPRESSION_LEVEL],
       [directories |-> <<N_src>>, files |-> <<PatCfg>>, ignore |-> <<>>,
        compression_level |-> DEFAULT_COMPRESSION_LEVEL],
       [directories |-> <<N_src>>, files |-> <<PatRootCfg>>,
        ignore |-> <<IgnGlobB, N_a>>,
        compression_level |-> DEFAULT_COMPRESSION_LEVEL],
       [directories |-> <<>>, files |-> <<PatCfg>>, ignore |-> <<IgnPrefixC>>,
        compression_level |-> DEFAULT_COMPRESSION_LEVEL] >>

InitSel ==
    /\ ws \in SelWorkspaces
    /\ store = [p \in {} |-> EmptyDir]
    /\ manifests = [n \in {} |-> 0]
    /\ cache = EmptyCache
    /\ last = NoCmd
    /\ pre = [ws |-> ws, store |-> [p \in {} |-> EmptyDir],
              manifests |-> [n \in {} |-> 0], cache |-> EmptyCache, last |-> NoCmd]
    /\ steps = 0

\* kibo save s1, the files in the order collect_files returns them
SelSave ==
    /\ steps < MaxSteps
    /\ \E k \in 1..Len(SelPolicies) :
        \E r \in {cmd_save(ws, store, cache, manifests, "s1", SelPolicies[k],
                           collect_files_vec(ws, SelPolicies[k]))} :
           /\ Step
           /\ store' = r.store
           /\ cache' = r.cache
           /\ manifests' = r.manifests
           /\ last' = [NoCmd EXCEPT !.cmd = "save", !.name = "s1", !.ok = r.ok,
                                    !.policy = k, !.new_blobs = r.new_blobs]
           /\ UNCHANGED ws

Reverse(seq) == [i \in 1..Len(seq) |-> seq[Len(seq) + 1 - i]]

\* kibo load <name> [--dry-run], the workers running in path order or in
\* the opposite order
SelLoad ==
    /\ steps < MaxSteps
    /\ \E name \in DOMAIN manifests, dry_run \in BOOLEAN :
      \E order \in {Sorted(DOMAIN manifests[name].files),
                     Reverse(Sorted(DOMAIN manifests[name].files))} :
        \E r \in {load_snapshot(ws, store, manifests[name], dry_run, order)} :
           /\ Step
           /\ ws' = r.ws
           /\ store' = r.store
           /\ last' = [NoCmd EXCEPT !.cmd = "load", !.name = name, !.ok = r.ok,
                                    !.dry_run = dry_run, !.stats = r.stats]
           /\ UNCHANGED <<manifests, cache>>

\* the user creates a file, a symlink or an empty directory where there was
\* nothing
SelCreate ==
    /\ steps < MaxSteps
    /\ \E p \in {P_cfg, P_b, P_scfg},
          node \in {File(<<"b">>, DefaultFileMode, Now), Link(<<"a">>), Dir(Now)} :
        /\ ws[p].kind = "none"
        /\ Step
        /\ ws' = TouchDir([ws EXCEPT ![p] = node], Parent(p))
        /\ last' = [NoCmd EXCEPT !.cmd = "edit", !.path = p]
        /\ UNCHANGED <<store, manifests, cache>>

\* the user replaces a file or a symlink by another file or symlink
SelChange ==
    /\ steps < MaxSteps
    /\ \E p \in {P_cfg, P_a, P_b, P_scfg},
          node \in {File(<<"a", "a">>, DefaultFileMode, Now), Link(<<"b">>)} :
        /\ ws[p].kind \in {"file", "symlink"}
        /\ ws[p].bytes # node.bytes
        /\ Step
        /\ ws' = TouchDir([ws EXCEPT ![p] = node], Parent(p))
        /\ last' = [NoCmd EXCEPT !.cmd = "edit", !.path = p]
        /\ UNCHANGED <<store, manifests, cache>>

NextSel == SelSave \/ SelLoad \/ SelCreate \/ SelChange

SpecSel == InitSel /\ [][NextSel]_vars

(***************************************************************************)
(* The manifest and the hash cache as objects of their own: a caller that  *)
(* makes any sequence of add_file, insert and get calls on a new manifest  *)
(* and a new cache.                                                        *)
(***************************************************************************)
UnitName == "m"
UnitPaths == {P_cfg, P_a}
UnitSizes == {1, 2}
\* modification instants on both sides of the epoch
UnitTimes == {-1, 0, 1}
UnitHashes == {Blake3(<<"a">>), Blake3(<<"b">>)}
UnitEntries ==
    {FileEntry(Blake3(b), Len(b), File(b, DefaultFileMode, 0), FALSE) :
        b \in {<<"a">>, <<"a", "a">>}}

\* Manifest::new and HashCache::new
InitUnits ==
    /\ ws = [p \in WsPaths |-> NoNode]
    /\ store = [p \in {} |-> EmptyDir]
    /\ manifests = [n \in {UnitName} |-> EmptyManifest(n)]
    /\ cache = EmptyCache
    /\ last = NoCmd
    /\ pre = [ws |-> ws, store |-> store, manifests |-> manifests,
              cache |-> EmptyCache, last |-> NoCmd]
    /\ steps = 0

\* manifest.add_file(relative_path, entry)
AddFileCall ==
    /\ steps < MaxSteps
    /\ \E p \in UnitPaths, entry \in UnitEntries :
        /\ Step
        /\ manifests' = [manifests EXCEPT ![UnitName] = add_file(@, p, entry)]
        /\ last' = [NoCmd EXCEPT !.cmd = "add_file", !.path = p, !.size = entry.size]
        /\ UNCHANGED <<ws, store, cache>>

\* cache.insert(path, size, mtime, hash)
CacheInsertCall ==
    /\ steps < MaxSteps
    /\ \E p \in UnitPaths, size \in UnitSizes, mtime \in UnitTimes, hash \in UnitHashes :
        /\ Step
        /\ cache' = cache_insert(cache, p, size, mtime, hash)
        /\ last' = [NoCmd EXCEPT !.cmd = "insert", !.path = p, !.size = size,
                                 !.mtime = mtime, !.hash = hash]
        /\ UNCHANGED <<ws, store, manifests>>

\* cache.get(path, size, mtime)
CacheGetCall ==
    /\ steps < MaxSteps
    /\ \E p \in UnitPaths, size \in UnitSizes, mtime \in UnitTimes :
        \E r \in {cache_get(cache, p, size, mtime)} :
            /\ Step
            /\ last' = [NoCmd EXCEPT !.cmd = "get", !.path = p, !.size = size,
                                     !.mtime = mtime, !.ret = r.some, !.hash = r.hash]
            /\ UNCHANGED <<ws, store, manifests, cache>>

NextUnits == AddFileCall \/ CacheInsertCall \/ CacheGetCall

SpecUnits == InitUnits /\ [][NextUnits]_vars

(***************************************************************************)
(* Interruption.  The process has no signal handler, so SIGINT ends it     *)
(* between any two system calls.  The writes of one file are followed call *)
(* by call: the copy of a blob onto a workspace file during a restore      *)
(* (copy_file: create, write, write, ...) and the staging of a workspace   *)
(* file into the store during a build (store_file: create the .tmp file,   *)
(* write, rename, chmod).  One byte of the model stands for one buffer of  *)
(* the copy loop.  last.pc is the position of the running process, pre the *)
(* state when its operation began.                                         *)
(***************************************************************************)
\* blob_path.with_extension("tmp")
TmpHash(hash) == hash \o <<".", "t", "m", "p">>

\* fs::remove_file of a file of the store
RemoveBlob(st, hash) ==
    [st EXCEPT ![blob_path(hash).prefix] =
        [n \in DOMAIN @ \ {blob_path(hash).rest} |-> @[n]]]

\* the workspace that was saved as s1, and what the user made of it since
IntSaved ==
    Tree(File(<<"a", "a">>, DefaultFileMode, 2), File(<<"a">>, DefaultFileMode, 3), NoNode)
IntWorkspaces ==
    { Tree(File(<<"b">>, DefaultFileMode, Now), File(<<"a">>, DefaultFileMode, 3), NoNode),
      Tree(File(<<"a", "a">>, DefaultFileMode, 2), File(<<"b">>, DefaultFileMode, Now),
           File(<<"K", "B", "C", "P", "x">>, DefaultFileMode, Now)),
      Tree(NoNode, File(<<"a">>, DefaultFileMode, 3), File(<<"b">>, DefaultFileMode, Now)) }

\* the repository after kibo save s1 of IntSaved without compression
IntRepo ==
    cmd_save(IntSaved, [p \in {} |-> EmptyDir], EmptyCache, [n \in {} |-> 0],
             "s1", Policies[2], <<P_cfg, P_a>>)

InitInterrupt ==
    /\ ws \in IntWorkspaces
    /\ store = IntRepo.store
    /\ manifests = IntRepo.manifests
    /\ cache = IntRepo.cache
    /\ last = NoCmd
    /\ pre = [ws |-> ws, store |-> store, manifests |-> manifests,
              cache |-> cache, last |-> NoCmd]
    /\ steps = 0

\* a restore of s1 reaches a regular-file entry whose blob is stored as it
\* is: File::create(dst) of copy_file creates or truncates the destination
CopyOpen ==
    /\ steps < MaxSteps
    /\ last.pc = "idle"
    /\ \E p \in DOMAIN manifests["s1"].files :
        /\ ~manifests["s1"].files[p].is_symlink
        /\ ws[p].kind \in {"file", "none"}
        /\ has_blob(store, manifests["s1"].files[p].hash)
        /\ ~is_blob_compressed(store, manifests["s1"].files[p].hash)
        /\ ws[p].bytes # BlobBytes(store, manifests["s1"].files[p].hash)
        /\ Step
        /\ ws' = [ws EXCEPT ![p] =
                    File(<<>>, IF ws[p].kind = "file" THEN ws[p].mode ELSE DefaultFileMode, Now)]
        /\ last' = [NoCmd EXCEPT !.cmd = "load", !.name = "s1", !.pc = "copying",
                                 !.path = p, !.hash = manifests["s1"].files[p].hash,
                                 !.bytes = BlobBytes(store, manifests["s1"].files[p].hash)]
        /\ UNCHANGED <<store, manifests, cache>>

\* writer.write_all of the copy loop: the next buffer reaches the file
CopyWrite ==
    /\ last.pc = "copying"
    /\ Len(ws[last.path].bytes) < Len(last.bytes)
    /\ ws' = [ws EXCEPT ![last.path].bytes = Append(@, last.bytes[Len(@) + 1])]
    /\ UNCHANGED <<store, manifests, cache, last, pre, steps>>

\* the copy is complete: load_single_file sets the mode and the mtime of
\* the entry and returns
CopyFinish ==
    /\ last.pc = "copying"
    /\ ws[last.path].bytes = last.bytes
    /\ ws' = [ws EXCEPT ![last.path].mode = PermBits(manifests["s1"].files[last.path].mode),
                        ![last.path].mtime =
                            from_unix_time(manifests["s1"].files[last.path].mtime_secs,
                                           manifests["s1"].files[last.path].mtime_nanos)]
    /\ last' = [last EXCEPT !.pc = "idle"]
    /\ UNCHANGED <<store, manifests, cache, pre, steps>>

\* a build reaches a file whose hash has no blob: store_file creates the
\* .tmp file beside the blob path
StoreOpenTemp ==
    /\ steps < MaxSteps
    /\ last.pc = "idle"
    /\ \E p \in {P_cfg, P_a, P_b} :
        /\ ws[p].kind = "file"
        /\ ~has_blob(store, hash_file(ws[p].bytes))
        /\ Step
        /\ store' = PutBlob(store, TmpHash(hash_file(ws[p].bytes)), <<>>, DefaultFileMode)
        /\ last' = [NoCmd EXCEPT !.cmd = "save", !.pc = "staging", !.path = p,
                                 !.hash = hash_file(ws[p].bytes), !.bytes = ws[p].bytes]
        /\ UNCHANGED <<ws, manifests, cache>>

\* the copy loop of store_file: the next buffer reaches the .tmp file
StoreWriteTemp ==
    /\ last.pc = "staging"
    /\ Len(BlobBytes(store, TmpHash(last.hash))) < Len(last.bytes)
    /\ store' = PutBlob(store, TmpHash(last.hash),
                        Append(BlobBytes(store, TmpHash(last.hash)),
                               last.bytes[Len(BlobBytes(store, TmpHash(last.hash))) + 1]),
                        DefaultFileMode)
    /\ UNCHANGED <<ws, manifests, cache, last, pre, steps>>

\* fs::rename(temp_path, blob_path)
StoreRename ==
    /\ last.pc = "staging"
    /\ BlobBytes(store, TmpHash(last.hash)) = last.bytes
    /\ store' = PutBlob(RemoveBlob(store, TmpHash(last.hash)), last.hash,
                        last.bytes, DefaultFileMode)
    /\ last' = [last EXCEPT !.pc = "renamed"]
    /\ UNCHANGED <<ws, manifests, cache, pre, steps>>

\* fs::set_permissions(blob_path, 0o444), and store_file returns
StoreChmod ==
    /\ last.pc = "renamed"
    /\ store' = PutBlob(store, last.hash, last.bytes, BlobMode)
    /\ last' = [last EXCEPT !.pc = "idle"]
    /\ UNCHANGED <<ws, manifests, cache, pre, steps>>

\* SIGINT: the process ends where it is
Interrupt ==
    /\ last.pc # "idle"
    /\ last' = [last EXCEPT !.pc = "idle", !.ok = FALSE]
    /\ UNCHANGED <<ws, store, manifests, cache, pre, steps>>

\* kibo prune, run between two other commands
IntPrune ==
    /\ steps < MaxSteps
    /\ last.pc = "idle"
    /\ \E r \in {cmd_prune(store, manifests)} :
       /\ Step
       /\ store' = r.store
       /\ last' = [NoCmd EXCEPT !.cmd = "prune", !.removed = r.removed]
       /\ UNCHANGED <<ws, manifests, cache>>

NextInterrupt ==
    \/ CopyOpen \/ CopyWrite \/ CopyFinish
    \/ StoreOpenTemp \/ StoreWriteTemp \/ StoreRename \/ StoreChmod
    \/ Interrupt \/ IntPrune

SpecInterrupt == InitInterrupt /\ [][NextInterrupt]_vars

(***************************************************************************)
(* Builds over files that cannot be read.  The repository has been saved   *)
(* once, so the hash cache knows every file; the snapshot may have been    *)
(* removed again, which sweeps the blobs and leaves the cache.             *)
(***************************************************************************)
FailSaved ==
    Tree(File(<<"b">>, DefaultFileMode, 2), File(<<"a">>, DefaultFileMode, 3),
         File(<<"a", "a">>, DefaultFileMode, 3))

\* the repository after kibo save s1 of FailSaved
FailRepo ==
    cmd_save(FailSaved, [p \in {} |-> EmptyDir], EmptyCache, [n \in {} |-> 0],
             "s1", Policies[2], <<P_cfg, P_a, P_b>>)

InitFail ==
    /\ ws = FailSaved
    /\ cache = FailRepo.cache
    /\ \E r \in {[store |-> FailRepo.store, manifests |-> FailRepo.manifests],
                  cmd_remove(FailRepo.store, FailRepo.manifests, {"s1"})} :
          /\ store = r.store
          /\ manifests = r.manifests
    /\ last = NoCmd
    /\ pre = [ws |-> ws, store |-> store, manifests |-> manifests,
              cache |-> cache, last |-> NoCmd]
    /\ steps = 0

\* chmod 000 <file>: the mtime stays
FailChmod ==
    /\ steps < MaxSteps
    /\ \E p \in {P_cfg, P_a, P_b} :
        /\ ws[p].kind = "file"
        /\ Readable(ws[p])
        /\ Step
        /\ ws' = [ws EXCEPT ![p].mode = 0]
        /\ last' = [NoCmd EXCEPT !.cmd = "edit", !.path = p]
        /\ UNCHANGED <<store, manifests, cache>>

\* the user rewrites a file
FailWrite ==
    /\ steps < MaxSteps
    /\ \E p \in {P_cfg, P_a}, bytes \in {<<"a">>, <<"b">>} :
        /\ ws[p].kind = "file"
        /\ Writable(ws[p])
        /\ ws[p].bytes # bytes
        /\ Step
        /\ ws' = [ws EXCEPT ![p].bytes = bytes, ![p].mtime = Now]
        /\ last' = [NoCmd EXCEPT !.cmd = "edit", !.path = p]
        /\ UNCHANGED <<store, manifests, cache>>

\* kibo save <name>
FailSave ==
    /\ steps < MaxSteps
    /\ \E name \in SnapNames, k \in 1..Len(Policies) :
      \E order \in Orders(collect_files(ws, Policies[k])) :
        \E r \in {cmd_save(ws, store, cache, manifests, name, Policies[k], order)} :
           /\ Step
           /\ store' = r.store
           /\ cache' = r.cache
           /\ manifests' = r.manifests
           /\ last' = [NoCmd EXCEPT !.cmd = "save", !.name = name, !.ok = r.ok,
                                    !.policy = k, !.new_blobs = r.new_blobs]
           /\ UNCHANGED ws

\* kibo load <name> [--dry-run]
FailLoad ==
    /\ steps < MaxSteps
    /\ \E name \in DOMAIN manifests, dry_run \in BOOLEAN :
      \E order \in Orders(DOMAIN manifests[name].files) :
        \E r \in {load_snapshot(ws, store, manifests[name], dry_run, order)} :
           /\ Step
           /\ ws' = r.ws
           /\ store' = r.store
           /\ last' = [NoCmd EXCEPT !.cmd = "load", !.name = name, !.ok = r.ok,
                                    !.dry_run = dry_run, !.stats = r.stats]
           /\ UNCHANGED <<manifests, cache>>

NextFail == FailChmod \/ FailWrite \/ FailSave \/ FailLoad

SpecFail == InitFail /\ [][NextFail]_vars

(***************************************************************************)
(* Properties.                                                             *)
(***************************************************************************)
\* the manifest the last command named, as it is now and as it was before
LastManifest == manifests[last.name]
PrevManifest == pre.manifests[pre.last.name]

\* C1: after any sequence of save, remove and prune commands (and restores
\* and edits between them) every hash a file entry of a present manifest
\* references exists as a blob in the store.
C1_ManifestBlobsPresent ==
    \A n \in DOMAIN manifests :
        \A p \in DOMAIN manifests[n].files :
            has_blob(store, manifests[n].files[p].hash)

\* a remove swept blobs away while another snapshot, with a symlink entry,
\* is still present
C1_Witness ==
    /\ last.cmd = "remove"
    /\ last.ok
    /\ last.removed > 0
    /\ \E n \in DOMAIN manifests :
          \E p \in DOMAIN manifests[n].files : manifests[n].files[p].is_symlink

\* what C2 asks of one path after a restore
Restored(w, p, entry) ==
    IF entry.is_symlink
    THEN /\ NodeAt(w, p).kind = "symlink"
         /\ NodeAt(w, p).bytes = entry.symlink_target.val
    ELSE /\ NodeAt(w, p).kind = "file"
         /\ hash_file(NodeAt(w, p).bytes) = entry.hash
         /\ NodeAt(w, p).mode = PermBits(entry.mode)
         /\ NodeAt(w, p).mtime = from_unix_time(entry.mtime_secs, entry.mtime_nanos)

\* C2: after a successful restore that is not a dry run, every path of the
\* manifest holds the recorded content (a symlink entry is a symlink with
\* the recorded target) and every regular file the recorded mode and mtime.
C2_RestoreMaterialises ==
    (last.cmd = "load" /\ last.ok /\ ~last.dry_run)
        => \A p \in DOMAIN LastManifest.files :
               Restored(ws, p, LastManifest.files[p])

\* C3: restoring a snapshot onto the unmodified workspace it was just built
\* from leaves every file as it was and reports everything unchanged.
C3_RestoreFixedPoint ==
    (/\ last.cmd = "load" /\ ~last.dry_run
     /\ pre.last.cmd = "save" /\ pre.last.ok /\ pre.last.name = last.name)
        => /\ last.ok
           /\ \A p \in WsPaths : pre.ws[p].kind # "dir" => ws[p] = pre.ws[p]
           /\ last.stats.copies = 0
           /\ last.stats.symlinks = 0
           /\ last.stats.removed = 0
           /\ last.stats.unchanged = Cardinality(DOMAIN LastManifest.files)

\* C4: a restore of a manifest that references a hash with no blob returns
\* an error and leaves the workspace (and the store) exactly as it was.
C4_MissingBlobFailsUntouched ==
    (/\ last.cmd = "load"
     /\ \E p \in DOMAIN pre.manifests[last.name].files :
           ~has_blob(pre.store, pre.manifests[last.name].files[p].hash))
        => /\ ~last.ok
           /\ ws = pre.ws
           /\ store = pre.store

\* a restore, not a dry run, right after a blob of its manifest was lost
C4_Witness ==
    /\ last.cmd = "load"
    /\ ~last.dry_run
    /\ pre.last.cmd = "lose"
    /\ \E p \in DOMAIN pre.manifests[last.name].files :
          pre.manifests[last.name].files[p].hash = pre.last.hash

\* C5: garbage_collect(live) removes a blob iff its hash is not in live: what
\* remains is what was there and is live, unchanged, and the count returned
\* is the number of blobs removed.
C5_GcRemovesExactlyDead ==
    last.cmd = "gc"
        => /\ StoredHashes(store) = StoredHashes(pre.store) \cap last.live
           /\ \A h \in StoredHashes(pre.store) \cap last.live :
                 /\ has_blob(store, h)
                 /\ BlobBytes(store, h) = BlobBytes(pre.store, h)
           /\ \A h \in StoredHashes(pre.store) \ last.live : ~has_blob(store, h)
           /\ last.removed = Cardinality(StoredHashes(pre.store) \ last.live)

\* a sweep that removed some blobs and kept others
C5_Witness ==
    /\ last.cmd = "gc"
    /\ last.removed > 0
    /\ StoredHashes(store) # {}

\* C6: store_file(F, h) followed by copy_blob_to_file(h) gives back F, for
\* every content and every level of the writing and of the reading store.
C6_CompressionTransparent ==
    (/\ last.cmd = "copy"
     /\ pre.last.cmd = "store_file" /\ pre.last.ret /\ pre.last.hash = last.hash)
        => /\ last.ok
           /\ last.out = pre.last.bytes

\* C7: a store call for a hash returns true iff the store had no blob of
\* that hash, and leaves the store as it was when it had one, whatever the
\* source of the second call.
C7_InsertIdempotent ==
    last.cmd \in {"store_file", "store_symlink"}
        => /\ last.ok
           /\ last.ret = ~has_blob(pre.store, last.hash)
           /\ has_blob(store, last.hash)
           /\ has_blob(pre.store, last.hash) => store = pre.store

\* a second store_file for the hash the call before inserted, from another
\* source
C7_Witness ==
    /\ last.cmd = "store_file"
    /\ ~last.ret
    /\ pre.last.cmd \in {"store_file", "store_symlink"}
    /\ pre.last.ret
    /\ pre.last.hash = last.hash
    /\ pre.last.bytes # last.bytes

\* C8: no command changes the bytes of a blob that is in the store before
\* and after it.
C8_BlobsImmutable ==
    \A h \in StoredHashes(pre.store) \cap StoredHashes(store) :
        BlobBytes(store, h) = BlobBytes(pre.store, h)

\* C9: a second build right after a build, same workspace and policy, gives
\* the same directories, files, total_size and file_count and inserts no blob.
C9_BuildStable ==
    (/\ last.cmd = "save" /\ last.ok
     /\ pre.last.cmd = "save" /\ pre.last.ok /\ pre.last.policy = last.policy)
        => /\ LastManifest.directories = PrevManifest.directories
           /\ LastManifest.files = PrevManifest.files
           /\ LastManifest.total_size = PrevManifest.total_size
           /\ LastManifest.file_count = PrevManifest.file_count
           /\ last.new_blobs = 0

\* two builds in a row of a workspace with a symlink, the first of which
\* inserted blobs
C9_Witness ==
    /\ last.cmd = "save" /\ last.ok
    /\ pre.last.cmd = "save" /\ pre.last.ok /\ pre.last.policy = last.policy
    /\ pre.last.new_blobs > 0
    /\ \E p \in DOMAIN LastManifest.files : LastManifest.files[p].is_symlink

\* the file entries a build of the current workspace records, started with
\* the given cache
BuiltFiles(c, config) ==
    create_snapshot(ws, store, c, "s1", config,
                    Sorted(collect_files(ws, config))).manifest.files

\* C10: a build started without the cache file and a build started with the
\* cache earlier builds left record the same file entries.
C10_CachePureOptimisation ==
    \A k \in 1..Len(Policies) :
        BuiltFiles(EmptyCache, Policies[k]) = BuiltFiles(cache, Policies[k])

\* a path is ignored iff some pattern matches it as a glob, is a literal
\* prefix of its string, or equals one of its components
IgnoredPath(patterns, p) ==
    \E i \in 1..Len(patterns) :
        \/ GlobMatch(patterns[i], PathStr(p))
        \/ IsPrefixSeq(patterns[i], PathStr(p))
        \/ patterns[i] \in {p[k] : k \in 1..Len(p)}

\* what a tracked file pattern stands for: ./P is P at the root, a pattern
\* with ** is taken as written, any other pattern P is P at any depth
PatternCovers(pattern, p) ==
    IF IsPrefixSeq(<<".", "/">>, pattern)
    THEN MatchComponents(Components(SubSeq(pattern, 3, Len(pattern))), p)
    ELSE IF ContainsStarStar(pattern)
    THEN MatchComponents(Components(pattern), p)
    ELSE \E k \in 1..Len(p) :
            MatchComponents(Components(pattern), SubSeq(p, k, Len(p)))

\* below a directory whose basename is a tracked directory name
UnderTrackedRoot(w, names, p) ==
    \E k \in 1..(Len(p) - 1) :
        /\ NodeAt(w, SubSeq(p, 1, k)).kind = "dir"
        /\ \E i \in 1..Len(names) : p[k] = names[i]

\* a non-directory entry of workspace w in a region a restore of m scans
InScannedRegion(w, m, p) ==
    /\ NodeAt(w, p).kind \in {"file", "symlink"}
    /\ \/ UnderTrackedRoot(w, m.tracked_directories, p)
       \/ \E i \in 1..Len(m.tracked_files) : PatternCovers(m.tracked_files[i], p)

\* a scanned entry that is not ignored and not a file of m
Stale(w, m, p) ==
    /\ InScannedRegion(w, m, p)
    /\ ~IgnoredPath(m.ignored_patterns, p)
    /\ p \notin DOMAIN m.files

\* C11: after a successful restore that is not a dry run no stale entry is
\* left, and every entry that was stale was unlinked and counted in removed.
C11_NoStaleLeft ==
    (last.cmd = "load" /\ last.ok /\ ~last.dry_run)
        => /\ \A p \in WsPaths : ~Stale(ws, LastManifest, p)
           /\ \A p \in WsPaths :
                 Stale(pre.ws, LastManifest, p)
                    => \E i \in 1..Len(last.stats.removed_files) :
                          last.stats.removed_files[i] = p
           /\ last.stats.removed =
                 Cardinality({p \in WsPaths : Stale(pre.ws, LastManifest, p)})

\* C12: a restore never deletes an entry whose path the manifest's ignore
\* patterns ignore (by glob, by literal prefix or by component), in the
\* tracked-directory walk and in the file-pattern pass alike.
C12_IgnoredNeverDeleted ==
    last.cmd = "load"
        => \A p \in WsPaths :
              (/\ pre.ws[p].kind \in {"file", "symlink"}
               /\ IgnoredPath(LastManifest.ignored_patterns, p))
                 => /\ ws[p].kind # "none"
                    /\ \A i \in 1..Len(last.stats.removed_files) :
                          last.stats.removed_files[i] # p

\* a restore that met, in a scanned region, an ignored entry that was
\* created after the save and is no file of the manifest
C12_Witness ==
    /\ last.cmd = "load" /\ last.ok /\ ~last.dry_run
    /\ \E p \in WsPaths :
          /\ InScannedRegion(pre.ws, LastManifest, p)
          /\ IgnoredPath(LastManifest.ignored_patterns, p)
          /\ p \notin DOMAIN LastManifest.files
          /\ pre.last.cmd = "edit" /\ pre.last.path = p

\* C13: a build that tracks file patterns only selects exactly the entries
\* the patterns stand for: ./P is P at the root, a bare P is P at any depth,
\* a pattern with ** is taken as written (ignored paths and directories
\* left out).
C13_PatternSelection ==
    (last.cmd = "save" /\ last.ok /\ LastManifest.tracked_directories = <<>>)
        => \A p \in WsPaths :
              p \in DOMAIN LastManifest.files
                 <=> /\ ws[p].kind \in {"file", "symlink"}
                     /\ Stat(ws, p).kind # "dir"
                     /\ \E i \in 1..Len(LastManifest.tracked_files) :
                           PatternCovers(LastManifest.tracked_files[i], p)
                     /\ ~IgnoredPath(LastManifest.ignored_patterns, p)

\* a build with ./cf? that took cfg at the root and left src/cfg out, right
\* after a build with cf? that took both
C13_Witness ==
    /\ last.cmd = "save" /\ last.ok
    /\ LastManifest.tracked_files = <<PatRootCfg>>
    /\ DOMAIN LastManifest.files = {P_cfg}
    /\ ws[P_scfg].kind # "none"
    /\ pre.last.cmd = "save" /\ pre.last.ok
    /\ PrevManifest.tracked_files = <<PatCfg>>
    /\ DOMAIN PrevManifest.files = {P_cfg, P_scfg}

\* the selection policy a manifest records
ConfigOf(m) ==
    [directories |-> m.tracked_directories, files |-> m.tracked_files,
     ignore |-> m.ignored_patterns,
     compression_level |-> DEFAULT_COMPRESSION_LEVEL]

\* the paths a restore reported as removed
RemovedPaths ==
    {last.stats.removed_files[i] : i \in 1..Len(last.stats.removed_files)}

\* C14: the cleanup of a restore scopes file patterns as build does: what
\* it deletes for the patterns is what build would select for them and the
\* manifest does not hold; with ./P nothing below the root is deleted.
C14_CleanupMirrorsBuild ==
    (last.cmd = "load" /\ last.ok /\ LastManifest.tracked_directories = <<>>)
        => /\ RemovedPaths = collect_files(pre.ws, ConfigOf(LastManifest))
                                \ DOMAIN LastManifest.files
           /\ \A p \in WsPaths :
                 (/\ \A i \in 1..Len(LastManifest.tracked_files) :
                        IsPrefixSeq(<<".", "/">>, LastManifest.tracked_files[i])
                  /\ Len(p) > 1)
                    => ws[p] = pre.ws[p]

\* C15: build keeps one entry per literal path: every selected symlink has
\* its own entry with the hash of its target string, a path selected twice
\* is counted once, and the build adds one blob per new hash.
C15_DedupByLiteralPath ==
    (last.cmd = "save" /\ last.ok)
        => /\ LastManifest.file_count = Cardinality(DOMAIN LastManifest.files)
           /\ \A p \in WsPaths :
                 (ws[p].kind = "symlink" /\ Stat(ws, p).kind # "dir")
                    => /\ ~Stale(ws, LastManifest, p)
                       /\ p \in DOMAIN LastManifest.files
                             => /\ LastManifest.files[p].is_symlink
                                /\ LastManifest.files[p].hash = hash_symlink(ws[p].bytes)
                                /\ has_blob(store, LastManifest.files[p].hash)
           /\ last.new_blobs =
                 Cardinality(StoredHashes(store) \ StoredHashes(pre.store))

\* a first build of two symlinks to src/a and of src/a itself, src/cfg being
\* selected by the tracked directory and by the file pattern: four entries,
\* three blobs
C15_Witness ==
    /\ last.cmd = "save" /\ last.ok
    /\ pre.store = [q \in {} |-> EmptyDir]
    /\ DOMAIN LastManifest.files = {P_cfg, P_a, P_b, P_scfg}
    /\ UnderTrackedRoot(ws, LastManifest.tracked_directories, P_scfg)
    /\ PatternCovers(LastManifest.tracked_files[1], P_scfg)
    /\ LastManifest.files[P_b].is_symlink
    /\ LastManifest.files[P_scfg].is_symlink
    /\ LastManifest.files[P_b].hash = LastManifest.files[P_scfg].hash
    /\ ~LastManifest.files[P_a].is_symlink
    /\ LastManifest.file_count = 4
    /\ last.new_blobs = 3

\* C16: in every file entry a build produced, is_symlink holds iff the
\* entry carries a symlink_target, and a symlink entry has size 0.
C16_SymlinkEntryShape ==
    \A n \in DOMAIN manifests :
        \A p \in DOMAIN manifests[n].files :
            /\ manifests[n].files[p].is_symlink = manifests[n].files[p].symlink_target.some
            /\ manifests[n].files[p].is_symlink => manifests[n].files[p].size = 0

\* a manifest with a symlink entry whose target is not empty beside a
\* regular-file entry that is not empty
C16_Witness ==
    \E n \in DOMAIN manifests :
        \E p, q \in DOMAIN manifests[n].files :
            /\ manifests[n].files[p].is_symlink
            /\ manifests[n].files[p].symlink_target.val # <<>>
            /\ ~manifests[n].files[q].is_symlink
            /\ manifests[n].files[q].size > 0

\* C17: after any sequence of add_file calls, file_count is the number of
\* entries of files and total_size is the sum of their sizes.
C17_CountersMatchFiles ==
    /\ manifests[UnitName].file_count = Cardinality(DOMAIN manifests[UnitName].files)
    /\ manifests[UnitName].total_size =
          SumOver(DOMAIN manifests[UnitName].files,
                  [p \in DOMAIN manifests[UnitName].files |->
                      manifests[UnitName].files[p].size])

\* the entry the cache holds for the arguments of an insert
KeyedEntry(size, mtime, hash) ==
    [size |-> size,
     mtime_secs |-> system_time_to_secs_nanos(mtime)[1],
     mtime_nanos |-> system_time_to_secs_nanos(mtime)[2],
     hash |-> hash]

\* C18: get returns Some(hash) iff the path has an entry whose size,
\* mtime_secs and mtime_nanos equal the query's, with that entry's hash;
\* insert leaves the path with exactly the inserted entry, whatever it had
\* before, and leaves every other path's entry as it was, so a get of the
\* inserted key right after it returns the inserted hash.
C18_CacheGetInsert ==
    /\ last.cmd = "get" =>
          /\ last.ret <=>
                /\ last.path \in DOMAIN cache
                /\ \E h \in UnitHashes :
                      cache[last.path] = KeyedEntry(last.size, last.mtime, h)
          /\ last.ret => last.hash = cache[last.path].hash
          /\ ~last.ret => last.hash = <<>>
    /\ last.cmd = "insert" =>
          /\ last.path \in DOMAIN cache
          /\ cache[last.path] = KeyedEntry(last.size, last.mtime, last.hash)
          /\ DOMAIN cache = DOMAIN pre.cache \cup {last.path}
          /\ \A q \in DOMAIN cache \ {last.path} : cache[q] = pre.cache[q]
    /\ (/\ last.cmd = "get"
        /\ pre.last.cmd = "insert"
        /\ pre.last.path = last.path
        /\ pre.last.size = last.size
        /\ pre.last.mtime = last.mtime)
          => last.ret /\ last.hash = pre.last.hash

\* a second insert of the same path, size and mtime with another hash has
\* replaced the first, beside an entry of another path
C18_Witness ==
    /\ last.cmd = "insert"
    /\ last.path \in DOMAIN pre.cache
    /\ pre.cache[last.path].size = last.size
    /\ pre.cache[last.path].mtime_secs = cache[last.path].mtime_secs
    /\ pre.cache[last.path].mtime_nanos = cache[last.path].mtime_nanos
    /\ pre.cache[last.path].hash # last.hash
    /\ cache[last.path].hash = last.hash
    /\ \E q \in DOMAIN pre.cache : q # last.path /\ cache[q] = pre.cache[q]

\* C19: after insert(p, s, t1, h), get(p, s, t2) with t2 # t1 returns None,
\* and get(p, s2, t1) with s2 # s returns None, for instants on either side
\* of the epoch.
C19_ChangeInvalidatesHit ==
    (/\ last.cmd = "get"
     /\ pre.last.cmd = "insert"
     /\ pre.last.path = last.path
     /\ pre.last.mtime # last.mtime \/ pre.last.size # last.size)
        => ~last.ret

\* C20: a load with dry_run set leaves the workspace, the store, the
\* manifests and the hash cache exactly as they were, whether it succeeds
\* or fails, and its statistics carry every counter with its path list:
\* each list is as long as its counter, files_loaded is the sum of copies,
\* unchanged and symlinks, and a successful run accounts for every entry of
\* the manifest.
C20_DryRunTouchesNothing ==
    (last.cmd = "load" /\ last.dry_run)
        => /\ ws = pre.ws
           /\ store = pre.store
           /\ manifests = pre.manifests
           /\ cache = pre.cache
           /\ Len(last.stats.removed_files) = last.stats.removed
           /\ Len(last.stats.copied_files) = last.stats.copies
           /\ Len(last.stats.unchanged_files) = last.stats.unchanged
           /\ Len(last.stats.symlink_files) = last.stats.symlinks
           /\ last.stats.files_loaded =
                 last.stats.copies + last.stats.unchanged + last.stats.symlinks
           /\ last.ok => last.stats.files_loaded =
                             Cardinality(DOMAIN manifests[last.name].files)

\* a dry run that reports a symlink to restore while the directories of the
\* manifest still wait for their recorded mode and mtime
C20_Witness ==
    /\ last.cmd = "load" /\ last.dry_run /\ last.ok
    /\ last.stats.symlinks > 0
    /\ restore_directories(pre.ws, manifests[last.name], FALSE).ws # pre.ws

\* the hashes the file entries of the manifests ms reference
LiveOf(ms) ==
    {h \in StoredHashes(store) \cup StoredHashes(pre.store) :
        \E n \in DOMAIN ms : \E p \in DOMAIN ms[n].files : ms[n].files[p].hash = h}

\* C21: prune deletes no manifest; remove deletes exactly the named
\* manifests that exist and leaves every other manifest as it was; after
\* either command the store holds exactly the blobs it held before whose
\* hash a remaining manifest references.
C21_RemoveAndPruneFrame ==
    /\ last.cmd = "prune" =>
          /\ manifests = pre.manifests
          /\ StoredHashes(store) = StoredHashes(pre.store) \cap LiveOf(manifests)
    /\ last.cmd = "remove" =>
          /\ DOMAIN manifests = DOMAIN pre.manifests \ last.names
          /\ \A n \in DOMAIN manifests : manifests[n] = pre.manifests[n]
          /\ last.ok =>
                StoredHashes(store) = StoredHashes(pre.store) \cap LiveOf(manifests)
          /\ ~last.ok => store = pre.store

\* a remove of one of two snapshots swept the blobs only the removed one
\* referenced and kept a blob of the other
C21_Witness ==
    /\ last.cmd = "remove"
    /\ last.names \cap DOMAIN pre.manifests # {}
    /\ DOMAIN manifests # {}
    /\ last.removed > 0
    /\ StoredHashes(store) # {}

\* C22: wherever a build or a restore is interrupted, every workspace file
\* holds the content it had when the operation began or the complete
\* content the operation gives it, every blob of the store is as it was or
\* complete, and after the next prune no file is left in the store that no
\* manifest references.
C22_InterruptLeavesWholeFiles ==
    /\ \A p \in WsPaths :
          ws[p].kind = "file"
             => \/ pre.ws[p].kind = "file" /\ ws[p].bytes = pre.ws[p].bytes
                \/ last.cmd = "load" /\ p = last.path /\ ws[p].bytes = last.bytes
    /\ \A h \in StoredHashes(store) :
          Len(h) = HashLen
             => \/ has_blob(pre.store, h) /\ BlobBytes(store, h) = BlobBytes(pre.store, h)
                \/ last.cmd = "save" /\ h = last.hash /\ BlobBytes(store, h) = last.bytes
    /\ last.cmd = "prune" => StoredHashes(store) \subseteq LiveOf(manifests)

\* a selected regular file that cannot be read
Unreadable(w, p) == w[p].kind = "file" /\ ~Readable(w[p])

\* C23: a selected file that cannot be read does not fail the build: the
\* build succeeds and its manifest holds every selected file that can be
\* read (and, of those that cannot, at most the ones whose hash the cache
\* supplied).
C23_UnreadableFileNotFatal ==
    last.cmd = "save"
        => /\ last.ok
           /\ last.name \in DOMAIN manifests
           /\ \A p \in collect_files(pre.ws, Policies[last.policy]) :
                 ~Unreadable(pre.ws, p) => p \in DOMAIN LastManifest.files
           /\ DOMAIN LastManifest.files \subseteq collect_files(pre.ws, Policies[last.policy])

(***************************************************************************)
(* A workspace with a hidden directory and with a directory inside .kibo   *)
(* that has the name of a tracked directory; policies that track src, the  *)
(* hidden directory, the name of the repository root, and the pattern cf?. *)
(***************************************************************************)
RootsTree(hsa, b) ==
    [p \in WsPaths |->
        CASE p \in {P_h, P_hsrc, P_kibo, P_ksrc, P_src} -> Dir(2)
          [] p = P_hsa -> hsa
          [] p = P_kscfg -> File(<<"b">>, DefaultFileMode, 2)
          [] p = P_cfg -> File(<<"b">>, DefaultFileMode, 2)
          [] p = P_a -> File(<<"a">>, DefaultFileMode, 3)
          [] p = P_b -> b
          [] OTHER -> NoNode]

RootsWorkspaces ==
    { RootsTree(File(<<"a">>, DefaultFileMode, 3), NoNode),
      RootsTree(NoNode, NoNode),
      RootsTree(NoNode, File(<<"b">>, DefaultFileMode, 3)) }

RootsPolicies ==
    << [directories |-> <<N_src>>, files |-> <<>>, ignore |-> <<>>,
        compression_level |-> DEFAULT_COMPRESSION_LEVEL],
       [directories |-> <<N_h>>, files |-> <<PatCfg>>, ignore |-> <<>>,
        compression_level |-> DEFAULT_COMPRESSION_LEVEL],
       [directories |-> <<RootName>>, files |-> <<>>, ignore |-> <<>>,
        compression_level |-> DEFAULT_COMPRESSION_LEVEL] >>

InitRoots ==
    /\ ws \in RootsWorkspaces
    /\ store = [p \in {} |-> EmptyDir]
    /\ manifests = [n \in {} |-> 0]
    /\ cache = EmptyCache
    /\ last = NoCmd
    /\ pre = [ws |-> ws, store |-> [p \in {} |-> EmptyDir],
              manifests |-> [n \in {} |-> 0], cache |-> EmptyCache, last |-> NoCmd]
    /\ steps = 0

\* kibo save s1
RootsSave ==
    /\ steps < MaxSteps
    /\ \E k \in 1..Len(RootsPolicies) :
        \E r \in {cmd_save(ws, store, cache, manifests, "s1", RootsPolicies[k],
                           collect_files_vec(ws, RootsPolicies[k]))} :
           /\ Step
           /\ store' = r.store
           /\ cache' = r.cache
           /\ manifests' = r.manifests
           /\ last' = [NoCmd EXCEPT !.cmd = "save", !.name = "s1", !.ok = r.ok,
                                    !.policy = k, !.new_blobs = r.new_blobs]
           /\ UNCHANGED ws

\* kibo load s1 [--dry-run]
RootsLoad ==
    /\ steps < MaxSteps
    /\ \E name \in DOMAIN manifests, dry_run \in BOOLEAN :
        \E r \in {load_snapshot(ws, store, manifests[name], dry_run,
                                Sorted(DOMAIN manifests[name].files))} :
           /\ Step
           /\ ws' = r.ws
           /\ store' = r.store
           /\ last' = [NoCmd EXCEPT !.cmd = "load", !.name = name, !.ok = r.ok,
                                    !.dry_run = dry_run, !.stats = r.stats]
           /\ UNCHANGED <<manifests, cache>>

\* the user creates a file in a tracked directory, or unlinks one
RootsEdit ==
    /\ steps < MaxSteps
    /\ \E p \in {P_hsa, P_a, P_b, P_scfg} :
        /\ Step
        /\ ws' = IF ws[p].kind = "none"
                 THEN TouchDir([ws EXCEPT ![p] = File(<<"a">>, DefaultFileMode, Now)],
                               Parent(p))
                 ELSE Unlink(ws, p)
        /\ last' = [NoCmd EXCEPT !.cmd = "edit", !.path = p]
        /\ UNCHANGED <<store, manifests, cache>>

NextRoots == RootsSave \/ RootsLoad \/ RootsEdit

SpecRoots == InitRoots /\ [][NextRoots]_vars

\* a path below <repo>/.kibo
UnderKibo(p) == IsPrefixSeq(<<N_kibo>>, p)

\* C26: no manifest that a build writes holds a file or a directory below
\* .kibo, and a restore leaves every entry below .kibo in place.
C26_KiboNeverTouched ==
    /\ (last.cmd = "save" /\ last.ok)
          => /\ \A p \in DOMAIN LastManifest.files : ~UnderKibo(p)
             /\ \A d \in DOMAIN LastManifest.directories : ~UnderKibo(d)
    /\ last.cmd = "load"
          => \A p \in WsPaths :
                UnderKibo(p) /\ pre.ws[p].kind # "none" => ws[p].kind # "none"

\* the roots the stale-file pass of a restore scans
scan_roots(w, m) == find_tracked_directory_roots(w, m) \cup inferred_roots(m)

\* C27: for the workspace a build has just captured, the tracked roots the
\* restore of that snapshot scans are the roots the build captured from.
C27_SameRoots ==
    (last.cmd = "save" /\ last.ok)
        => {d \in scan_roots(ws, LastManifest) : NodeAt(ws, d).kind = "dir"}
              = found_dirs(ws, RootsPolicies[last.policy])

\* the copy of a regular-file entry that must fail: the path holds a file
\* its owner cannot write and whose content is not the entry's
BlockedCopy(w, p, entry) ==
    /\ ~entry.is_symlink
    /\ w[p].kind = "file"
    /\ ~Writable(w[p])
    /\ ~Readable(w[p]) \/ hash_file(w[p].bytes) # entry.hash

C25_EmptyManifestNoMutation ==
    (last.cmd = "load" /\ DOMAIN LastManifest.files = {})
        => last.ok /\ ws = pre.ws

\* the entry on disk at a manifest path already has the hash of the entry
SameOnDisk(w, p, entry) ==
    IF entry.is_symlink
    THEN w[p].kind = "symlink" /\ hash_symlink(w[p].bytes) = entry.hash
    ELSE w[p].kind = "file" /\ Readable(w[p]) /\ hash_file(w[p].bytes) = entry.hash

InSeq(x, seq) == \E i \in 1..Len(seq) : seq[i] = x

\* C28: a restore counts a manifest path whose on-disk hash equals the
\* entry's hash as unchanged and leaves the entry at that path exactly as it
\* was: content, link target, mode and mtime.
C28_UnchangedNotTouched ==
    (/\ last.cmd = "load" /\ ~last.dry_run
     /\ verify_snapshot(LastManifest, pre.store))
        => \A p \in DOMAIN LastManifest.files :
              SameOnDisk(pre.ws, p, LastManifest.files[p])
                 => /\ InSeq(p, last.stats.unchanged_files)
                    /\ ws[p] = pre.ws[p]

(***************************************************************************)
(* load_snapshot phase by phase.  last.pc names the phase that has         *)
(* finished; in the file-restore phase the workers of the parallel         *)
(* iterator restore the entries of last.todo one by one, in any order.     *)
(***************************************************************************)
PhaseOrder == <<"idle", "verify", "stale", "empty", "dirs", "scan", "files">>

PhaseAfter(order, pc) == order[(CHOOSE i \in 1..Len(order) : order[i] = pc) + 1]

\* an engine that removes the empty directories before the stale files
NextPhase_empty_first(pc) ==
    PhaseAfter(<<"idle", "verify", "empty", "stale", "dirs", "scan", "files">>, pc)

\* the call that follows in the body of load_snapshot
NextPhase(pc) ==
    PhaseAfter(PhaseOrder, pc)

\* the workspace some time after kibo save s1 of FailSaved: src was touched
PhaseTree(cfg, a, b, scfg) ==
    [Tree5(cfg, a, b, scfg) EXCEPT ![P_src].mtime = Now]

PhaseWorkspaces ==
    { PhaseTree(File(<<"a">>, DefaultFileMode, Now), File(<<"a">>, DefaultFileMode, 3),
                NoNode, File(<<"b">>, DefaultFileMode, Now)),
      PhaseTree(File(<<"b">>, DefaultFileMode, 2), File(<<"b">>, DefaultFileMode, Now),
                File(<<"a", "a">>, DefaultFileMode, 3), Dir(Now)),
      PhaseTree(NoNode, NoNode, File(<<"a">>, DefaultFileMode, Now),
                File(<<"a">>, DefaultFileMode, Now)),
      PhaseTree(File(<<"b">>, DefaultFileMode, 2), File(<<"a">>, DefaultFileMode, 3),
                Dir(Now), NoNode) }

\* the repository after kibo save s2 of a workspace in which src/b is an empty
\* directory
PhaseRepo ==
    cmd_save(Tree(File(<<"b">>, DefaultFileMode, 2), File(<<"a">>, DefaultFileMode, 3),
                  Dir(3)),
             FailRepo.store, FailRepo.cache, FailRepo.manifests, "s2", Policies[1],
             <<P_a>>)

InitPhases ==
    /\ ws \in PhaseWorkspaces
    /\ store = PhaseRepo.store
    /\ manifests = PhaseRepo.manifests
    /\ cache = PhaseRepo.cache
    /\ last = NoCmd
    /\ pre = [ws |-> ws, store |-> store, manifests |-> manifests,
              cache |-> cache, last |-> NoCmd]
    /\ steps = 0

\* kibo load <name> [--dry-run] starts: the manifest is read and verified
PhaseVerify ==
    /\ steps < MaxSteps
    /\ last.pc = "idle"
    /\ \E name \in DOMAIN manifests, dry_run \in BOOLEAN :
        /\ Step
        /\ last' = [NoCmd EXCEPT !.cmd = "load", !.name = name, !.dry_run = dry_run,
                                 !.ok = verify_snapshot(manifests[name], store),
                                 !.pc = IF verify_snapshot(manifests[name], store)
                                        THEN NextPhase("idle") ELSE "idle"]
        /\ UNCHANGED <<ws, store, manifests, cache>>

PhaseStale ==
    /\ last.pc \in {"verify", "stale", "empty"}
    /\ NextPhase(last.pc) = "stale"
    /\ \E r \in {cleanup_stale_files(ws, store, last.stats, manifests[last.name],
                                      last.dry_run)} :
        /\ ws' = r.ws
        /\ last' = [last EXCEPT !.stats = r.stats, !.pc = "stale"]
    /\ UNCHANGED <<store, manifests, cache, pre, steps>>

PhaseEmpty ==
    /\ last.pc \in {"verify", "stale", "empty"}
    /\ NextPhase(last.pc) = "empty"
    /\ ws' = cleanup_empty_directories(ws, manifests[last.name], last.dry_run)
    /\ last' = [last EXCEPT !.pc = "empty"]
    /\ UNCHANGED <<store, manifests, cache, pre, steps>>

PhaseDirs ==
    /\ last.pc \in {"verify", "stale", "empty"}
    /\ NextPhase(last.pc) = "dirs"
    /\ \E r \in {restore_directories(ws, manifests[last.name], last.dry_run)} :
        /\ ws' = r.ws
        /\ last' = [last EXCEPT !.ok = r.ok, !.pc = IF r.ok THEN "dirs" ELSE "idle"]
    /\ UNCHANGED <<store, manifests, cache, pre, steps>>

\* load_files up to the parallel iterator: the hashes of the existing files
PhaseScan ==
    /\ last.pc = "dirs"
    /\ NextPhase(last.pc) = "scan"
    /\ last' = [last EXCEPT
                   !.existing = scan_existing_files_in_manifest(ws, manifests[last.name]),
                   !.todo = DOMAIN manifests[last.name].files,
                   !.pc = "scan"]
    /\ UNCHANGED <<ws, store, manifests, cache, pre, steps>>

\* one worker of the parallel iterator restores one entry
PhaseWorker ==
    /\ last.pc \in {"scan", "files"}
    /\ \E p \in last.todo :
        \E r \in {load_single_file([ok |-> last.ok, ws |-> ws, store |-> store,
                                     stats |-> last.stats],
                                    p, manifests[last.name].files[p],
                                    last.existing, last.dry_run)} :
           /\ ws' = r.ws
           /\ store' = r.store
           /\ last' = [last EXCEPT !.ok = r.ok, !.stats = r.stats,
                                   !.todo = @ \ {p}, !.pc = NextPhase("scan")]
    /\ UNCHANGED <<manifests, cache, pre, steps>>

\* every worker has returned: the results are collected, load_snapshot returns
PhaseFinish ==
    /\ last.pc \in {"scan", "files"}
    /\ last.todo = {}
    /\ last' = [last EXCEPT !.pc = "idle"]
    /\ UNCHANGED <<ws, store, manifests, cache, pre, steps>>

\* between two restores the user creates a file or replaces one
PhaseEdit ==
    /\ steps < MaxSteps
    /\ last.pc = "idle"
    /\ \E p \in {P_cfg, P_a, P_scfg} :
        /\ ws[p].kind # "dir"
        /\ Step
        /\ ws' = TouchDir([ws EXCEPT ![p] = File(<<"a", "a">>, DefaultFileMode, Now)],
                          Parent(p))
        /\ last' = [NoCmd EXCEPT !.cmd = "edit", !.path = p]
        /\ UNCHANGED <<store, manifests, cache>>

NextPhases ==
    \/ PhaseVerify \/ PhaseStale \/ PhaseEmpty \/ PhaseDirs \/ PhaseScan
    \/ PhaseWorker \/ PhaseFinish \/ PhaseEdit

SpecPhases == InitPhases /\ [][NextPhases]_vars

\* C29: the phases of a restore end in the order verify, stale-file cleanup,
\* empty-directory cleanup, directory restore, hash scan, file restore; a
\* stale file is unlinked only by the stale-file phase, a directory is
\* removed only by the empty-directory phase, and a file or a symlink is
\* written only by a worker of the file-restore phase.
C29_PhasesInOrder ==
    [][last'.cmd = "load" =>
        /\ last'.pc = "verify" => last.pc = "idle"
        /\ last'.pc = "stale" => last.pc = "verify"
        /\ last'.pc = "empty" => last.pc = "stale"
        /\ last'.pc = "dirs" => last.pc = "empty"
        /\ last'.pc = "scan" => last.pc = "dirs"
        /\ last'.pc = "files" => last.pc \in {"scan", "files"}
        /\ \A p \in WsPaths :
              /\ (/\ p \notin DOMAIN manifests[last'.name].files
                  /\ ws[p].kind \in {"file", "symlink"} /\ ws'[p].kind = "none")
                    => last'.pc = "stale"
              /\ (ws[p].kind = "dir" /\ ws'[p].kind = "none") => last'.pc = "empty"
              /\ (ws'[p].kind \in {"file", "symlink"} /\ ws'[p] # ws[p])
                    => last'.pc = "files"]_vars

\* a restore in its file-restore phase, one worker done and another not,
\* after its stale-file phase has removed a file
C29_Witness ==
    /\ last.cmd = "load" /\ ~last.dry_run /\ last.pc = "files"
    /\ last.todo # {}
    /\ last.todo # DOMAIN LastManifest.files
    /\ last.stats.removed > 0
    /\ last.stats.copies > 0

\* a directory the empty-directory phase is to remove: below a scanned root
\* and outside .kibo, not an ancestor of a manifest file, not a directory of
\* the manifest, and with nothing below it but directories of the same kind
Unlisted(m, d) == d \notin required_dirs(m) /\ d \notin DOMAIN m.directories

Removable(w, m, d) ==
    /\ w[d].kind = "dir"
    /\ ~IsPrefixSeq(<<N_kibo>>, d)
    /\ \E r \in find_tracked_directory_roots(w, m) : IsPrefixSeq(r, d)
    /\ Unlisted(m, d)
    /\ \A p \in WsPaths :
          (IsPrefixSeq(d, p) /\ p # d /\ w[p].kind # "none")
             => w[p].kind = "dir" /\ Unlisted(m, p)

\* C30: the empty-directory phase of a restore removes exactly the
\* directories below the scanned roots that are empty (or hold only
\* directories it removes) and are neither required by a manifest file nor
\* listed in manifest.directories, and it never fails.
C30_EmptyDirCleanup ==
    [][(last'.cmd = "load" /\ ~last'.dry_run /\ last'.pc = "empty")
         => \A d \in WsPaths :
               (ws[d].kind = "dir" /\ ws'[d].kind = "none")
                  <=> Removable(ws, manifests[last'.name], d)]_vars

(***************************************************************************)
(* Writers of the store directory, system call by system call: two threads *)
(* that each make one call of store_file, store_symlink or atomic_write.   *)
(* last.writers[w] is the position of thread w: its call, the name of its  *)
(* staging file, the name under which the file behind its descriptor is    *)
(* now linked (at; <<>> when it is linked nowhere) and the number of       *)
(* buffers it has written.  A system call can fail where the code handles  *)
(* its error.                                                              *)
(***************************************************************************)
StageWriters == {1, 2}

\* the readings of the clock that rand_suffix can return to the two threads
StageClock == {"1", "2"}

\* a path of the store directory written by atomic_write directly
StageTarget == <<"m", "f", "1">>

StageJobs ==
    { [kind |-> "file", bytes |-> <<"a", "a">>, path |-> Blake3(<<"a", "a">>)],
      [kind |-> "file", bytes |-> <<"b">>, path |-> Blake3(<<"b">>)],
      [kind |-> "symlink", bytes |-> <<"a", "a">>, path |-> Blake3(<<"a", "a">>)],
      [kind |-> "atomic", bytes |-> <<"a", "a">>, path |-> StageTarget] }

IdleWriter ==
    [pc |-> "idle", kind |-> "", bytes |-> <<>>, path |-> <<>>, tmp |-> <<>>,
     at |-> <<>>, n |-> 0, before |-> [some |-> FALSE, bytes |-> <<>>]]

\* parent.join(format!(".kibo_tmp_{}_{}", process::id(), rand_suffix()))
AtomicTmp(path, suffix) == blob_path(path).prefix \o <<".kibo_tmp_pid_", suffix>>

\* the staging file of a call: blob_path.with_extension("tmp") in store_file
TempPath(kind, path, suffix) ==
    IF kind = "file" THEN TmpHash(path) ELSE AtomicTmp(path, suffix)

\* write(fd) of one buffer at offset k - 1 of a file
WriteAt(bytes, k, b) ==
    [i \in 1..(IF Len(bytes) > k THEN Len(bytes) ELSE k) |->
        IF i = k THEN b ELSE IF i <= Len(bytes) THEN bytes[i] ELSE "0"]

\* the permission bits of a file of the store
st_perm(st, name) == st[blob_path(name).prefix][blob_path(name).rest].mode

\* File::create: a new empty file, or the existing file truncated
CreateTrunc(st, name) ==
    PutBlob(st, name, <<>>,
            IF has_blob(st, name) THEN st[blob_path(name).prefix][blob_path(name).rest].mode
            ELSE DefaultFileMode)

\* fs::rename(tmp, final) of an existing file
RenameBlob(st, tmp, final) ==
    PutBlob(RemoveBlob(st, tmp), final, BlobBytes(st, tmp),
            st[blob_path(tmp).prefix][blob_path(tmp).rest].mode)

\* the open descriptors after the rename: they stay with their files
AfterRename(W, tmp, final) ==
    [v \in StageWriters |->
        IF W[v].at = tmp THEN [W[v] EXCEPT !.at = final]
        ELSE IF W[v].at = final THEN [W[v] EXCEPT !.at = <<>>]
        ELSE W[v]]

InitStage ==
    /\ ws = [p \in WsPaths |-> NoNode]
    /\ store \in {[p \in {} |-> EmptyDir],
                  PutBlob([p \in {} |-> EmptyDir], StageTarget, <<"b">>, DefaultFileMode)}
    /\ manifests = [n \in {} |-> 0]
    /\ cache = EmptyCache
    /\ last = [NoCmd EXCEPT !.writers = [w \in StageWriters |-> IdleWriter]]
    /\ pre = [ws |-> ws, store |-> store, manifests |-> manifests,
              cache |-> cache, last |-> NoCmd]
    /\ steps = 0

\* the call starts: the test for an existing blob, create_dir_all of the
\* parent, the name of the staging file
StageBegin ==
    \E w \in StageWriters, job \in StageJobs, suffix \in StageClock :
        /\ last.writers[w].pc = "idle"
        /\ IF job.kind # "atomic" /\ has_blob(store, job.path)
           THEN /\ store' = store
                /\ last' = [last EXCEPT !.writers[w] =
                               [IdleWriter EXCEPT !.pc = "done", !.kind = job.kind,
                                                  !.bytes = job.bytes, !.path = job.path]]
           ELSE /\ store' = EnsurePrefix(store, blob_path(job.path).prefix)
                /\ last' = [last EXCEPT !.writers[w] =
                               [IdleWriter EXCEPT
                                  !.pc = "open", !.kind = job.kind,
                                  !.bytes = job.bytes, !.path = job.path,
                                  !.tmp = TempPath(job.kind, job.path, suffix),
                                  !.before =
                                     [some |-> has_blob(store, job.path),
                                      bytes |-> IF has_blob(store, job.path)
                                                THEN BlobBytes(store, job.path)
                                                ELSE <<>>]]]
        /\ UNCHANGED <<ws, manifests, cache, pre, steps>>

\* File::create(temp_path)
StageCreate ==
    \E w \in StageWriters :
        /\ last.writers[w].pc = "open"
        /\ store' = CreateTrunc(store, last.writers[w].tmp)
        /\ last' = [last EXCEPT !.writers[w].pc = "writing",
                                !.writers[w].at = last.writers[w].tmp]
        /\ UNCHANGED <<ws, manifests, cache, pre, steps>>

\* the next buffer is written through the descriptor
StageWrite ==
    \E w \in StageWriters :
        LET me == last.writers[w] IN
        /\ me.pc = "writing"
        /\ store' = IF me.at = <<>> THEN store
                    ELSE PutBlob(store, me.at,
                                 WriteAt(BlobBytes(store, me.at), me.n + 1,
                                         me.bytes[me.n + 1]),
                                 st_perm(store, me.at))
        /\ last' = [last EXCEPT !.writers[w].n = me.n + 1,
                                !.writers[w].pc = IF me.n + 1 = Len(me.bytes)
                                                  THEN "written" ELSE "writing"]
        /\ UNCHANGED <<ws, manifests, cache, pre, steps>>

\* fs::rename(temp_path, path); it fails when the staging file is gone, and
\* the handler then removes the staging file, which is gone
StageRename ==
    \E w \in StageWriters :
        LET me == last.writers[w] IN
        /\ me.pc = "written"
        /\ IF has_blob(store, me.tmp)
           THEN /\ store' = RenameBlob(store, me.tmp, me.path)
                /\ last' = [last EXCEPT !.writers =
                               [AfterRename(last.writers, me.tmp, me.path) EXCEPT
                                  ![w].pc = IF me.kind = "file" THEN "renamed"
                                            ELSE "done"]]
           ELSE /\ store' = store
                /\ last' = [last EXCEPT !.writers[w].pc = "failed"]
        /\ UNCHANGED <<ws, manifests, cache, pre, steps>>

\* let _ = fs::set_permissions(blob_path, 0o444), and store_file returns
StageChmod ==
    \E w \in StageWriters :
        LET me == last.writers[w] IN
        /\ me.pc = "renamed"
        /\ store' = PutBlob(store, me.path, BlobBytes(store, me.path), BlobMode)
        /\ last' = [last EXCEPT !.writers[w].pc = "done"]
        /\ UNCHANGED <<ws, manifests, cache, pre, steps>>

\* a system call of the writer fails: File::create, a write, sync_all (the
\* error is returned), or the rename (the staging file is removed first)
StageError ==
    \E w \in StageWriters, renaming \in BOOLEAN :
        LET me == last.writers[w] IN
        /\ me.pc \in {"open", "writing", "written"}
        /\ renaming => me.pc = "written"
        /\ ~renaming => me.pc # "written" \/ me.kind # "file"
        /\ IF renaming /\ has_blob(store, me.tmp)
           THEN /\ store' = RemoveBlob(store, me.tmp)
                /\ last' = [last EXCEPT !.writers =
                               [v \in StageWriters |->
                                  IF v = w THEN [me EXCEPT !.pc = "failed", !.at = <<>>]
                                  ELSE IF last.writers[v].at = me.tmp
                                       THEN [last.writers[v] EXCEPT !.at = <<>>]
                                       ELSE last.writers[v]]]
           ELSE /\ store' = store
                /\ last' = [last EXCEPT !.writers[w].pc = "failed"]
        /\ UNCHANGED <<ws, manifests, cache, pre, steps>>

NextStage ==
    \/ StageBegin \/ StageCreate \/ StageWrite \/ StageRename \/ StageChmod
    \/ StageError

SpecStage == InitStage /\ [][NextStage]_vars

\* C31: when a call of atomic_write has failed (no other writer at work),
\* the target holds what it held before the call, or is still absent, and
\* the staging file of the call is gone.
C31_AtomicWriteFailureClean ==
    \A w \in StageWriters :
        (/\ last.writers[w].pc = "failed"
         /\ last.writers[w].kind \in {"symlink", "atomic"}
         /\ \A v \in StageWriters \ {w} : last.writers[v].pc = "idle")
            => /\ has_blob(store, last.writers[w].path) = last.writers[w].before.some
               /\ last.writers[w].before.some
                     => BlobBytes(store, last.writers[w].path)
                           = last.writers[w].before.bytes
               /\ ~has_blob(store, last.writers[w].tmp)

\* C32: whatever two writers of the store do, a final blob path is absent
\* or holds the complete bytes of a blob of that hash, and two calls that
\* are between the creation and the rename of their staging files use
\* staging files of different names.
C32_BlobWholeUnderFinalName ==
    /\ \A job \in StageJobs :
          (job.kind # "atomic" /\ has_blob(store, job.path))
             => \E j \in StageJobs :
                   j.path = job.path /\ BlobBytes(store, job.path) = j.bytes
    /\ \A w, v \in StageWriters :
          (/\ w # v
           /\ last.writers[w].pc \in {"open", "writing", "written"}
           /\ last.writers[v].pc \in {"open", "writing", "written"})
             => last.writers[w].tmp # last.writers[v].tmp
(***************************************************************************)
(* The statistics of a restore whose workers ran in any order.             *)
(***************************************************************************)
\* the number of indices at which p stands in the three lists of the files
\* that were copied, found unchanged, or recreated as symlinks
Listed(stats, p) ==
    Cardinality({i \in 1..Len(stats.copied_files) : stats.copied_files[i] = p})
    + Cardinality({i \in 1..Len(stats.unchanged_files) : stats.unchanged_files[i] = p})
    + Cardinality({i \in 1..Len(stats.symlink_files) : stats.symlink_files[i] = p})

\* C33: after a successful restore, in whatever order the workers ran,
\* files_loaded is the sum of copies, unchanged and symlinks and the number
\* of file entries of the manifest, every path of the manifest stands exactly
\* once in exactly one of copied_files, unchanged_files and symlink_files,
\* no other path stands in them, and every counter, removed included, is the
\* length of its list.
C33_StatsAccountForEveryEntry ==
    (last.cmd = "load" /\ last.ok)
        => /\ last.stats.files_loaded =
                 last.stats.copies + last.stats.unchanged + last.stats.symlinks
           /\ last.stats.files_loaded =
                 Cardinality(DOMAIN pre.manifests[last.name].files)
           /\ \A q \in DOMAIN pre.manifests[last.name].files :
                 Listed(last.stats, q) = 1
           /\ Len(last.stats.copied_files) = last.stats.copies
           /\ Len(last.stats.unchanged_files) = last.stats.unchanged
           /\ Len(last.stats.symlink_files) = last.stats.symlinks
           /\ Len(last.stats.removed_files) = last.stats.removed

\* a restore that was not a dry run, one of whose workers copied a file
\* while another found its file unchanged
C33_Witness ==
    /\ last.cmd = "load" /\ last.ok /\ ~last.dry_run
    /\ last.stats.copies > 0
    /\ last.stats.unchanged > 0


(***************************************************************************)
(* The parallel hashing of a build, step by step: the workers of the       *)
(* parallel map share the hash cache behind one mutex.  last.todo holds    *)
(* the files not yet taken, last.mutex the worker that holds the lock,     *)
(* last.entries the hash of every file processed so far.                   *)
(***************************************************************************)
HashWorkers == {1, 2}

HashFiles == {P_cfg, P_a, P_b}

IdleHasher == [pc |-> "idle", path |-> <<>>, node |-> NoNode, hash |-> <<>>]

\* the caches a build can find: none; one that knows cfg as it is; one that
\* knows src/a with another size; one that knows src/b with its size and
\* mtime under the hash of an earlier content
HashCaches(w) ==
    {EmptyCache,
     cache_insert(EmptyCache, P_cfg, Len(w[P_cfg].bytes), w[P_cfg].mtime,
                  hash_file(w[P_cfg].bytes)),
     cache_insert(EmptyCache, P_a, Len(w[P_a].bytes) + 1, w[P_a].mtime,
                  hash_file(<<"b">>)),
     cache_insert(EmptyCache, P_b, Len(w[P_b].bytes), w[P_b].mtime,
                  hash_file(<<"a", "a">>))}

InitHash ==
    /\ ws \in InitWorkspaces
    /\ store = [p \in {} |-> EmptyDir]
    /\ manifests = [n \in {} |-> 0]
    /\ cache \in HashCaches(ws)
    /\ last = [NoCmd EXCEPT !.todo = HashFiles,
                            !.hashers = [w \in HashWorkers |-> IdleHasher]]
    /\ pre = [ws |-> ws, store |-> store, manifests |-> manifests,
              cache |-> cache, last |-> NoCmd]
    /\ steps = 0

\* a guard that stays alive after the probe missed
drop_guard_kept(w) == {w}

\* drop(cache): the holder of the mutex after the guard was dropped
drop_guard(w) ==
    {}

WithEntry(entries, p, hash) ==
    [q \in DOMAIN entries \cup {p} |-> IF q = p THEN hash ELSE entries[q]]

\* a worker takes the next file and reads its metadata; a symlink is hashed
\* by its target without the cache
HashTake ==
    \E w \in HashWorkers :
      \E p \in last.todo :
        /\ last.hashers[w].pc = "idle"
        /\ IF ws[p].kind = "symlink"
           THEN last' = [last EXCEPT !.todo = @ \ {p},
                            !.entries = WithEntry(@, p, hash_symlink(ws[p].bytes))]
           ELSE last' = [last EXCEPT !.todo = @ \ {p},
                            !.hashers[w] = [IdleHasher EXCEPT !.pc = "probe",
                                               !.path = p, !.node = ws[p]]]
        /\ UNCHANGED <<ws, store, manifests, cache, pre, steps>>

\* hash_cache.lock(): granted when no worker holds the mutex
HashLock ==
    \E w \in HashWorkers :
        /\ last.hashers[w].pc \in {"probe", "insert"}
        /\ last.mutex = {}
        /\ last' = [last EXCEPT !.mutex = {w},
                       !.hashers[w].pc = IF @ = "probe" THEN "probing"
                                         ELSE "inserting"]
        /\ UNCHANGED <<ws, store, manifests, cache, pre, steps>>

\* cache.get under the lock: a hit ends the worker's file, a miss drops the
\* guard before the file is hashed
HashProbe ==
    \E w \in HashWorkers :
      \E hit \in {cache_get(cache, last.hashers[w].path,
                            Len(last.hashers[w].node.bytes),
                            last.hashers[w].node.mtime)} :
        /\ last.hashers[w].pc = "probing"
        /\ IF hit.some
           THEN last' = [last EXCEPT !.mutex = {},
                            !.entries = WithEntry(@, last.hashers[w].path, hit.hash),
                            !.hashers[w] = IdleHasher]
           ELSE last' = [last EXCEPT !.mutex = drop_guard(w),
                            !.hashers[w].pc = "hashing"]
        /\ UNCHANGED <<ws, store, manifests, cache, pre, steps>>

\* file_hash::hash_file: its error ends the worker's file with a warning
HashFile ==
    \E w \in HashWorkers :
        /\ last.hashers[w].pc = "hashing"
        /\ IF Readable(ws[last.hashers[w].path])
           THEN last' = [last EXCEPT
                            !.hashers[w].pc = "insert",
                            !.hashers[w].hash =
                                hash_file(ws[last.hashers[w].path].bytes)]
           ELSE last' = [last EXCEPT !.hashers[w] = IdleHasher,
                                     !.mutex = @ \ {w}]
        /\ UNCHANGED <<ws, store, manifests, cache, pre, steps>>

\* cache.insert under the lock taken again
HashInsert ==
    \E w \in HashWorkers :
        /\ last.hashers[w].pc = "inserting"
        /\ cache' = cache_insert(cache, last.hashers[w].path,
                                 Len(last.hashers[w].node.bytes),
                                 last.hashers[w].node.mtime, last.hashers[w].hash)
        /\ last' = [last EXCEPT !.mutex = {},
                       !.entries = WithEntry(@, last.hashers[w].path,
                                             last.hashers[w].hash),
                       !.hashers[w] = IdleHasher]
        /\ UNCHANGED <<ws, store, manifests, pre, steps>>

NextHash == HashTake \/ HashLock \/ HashProbe \/ HashFile \/ HashInsert

SpecHash == InitHash /\ [][NextHash]_vars

HashDone ==
    /\ last.todo = {}
    /\ \A w \in HashWorkers : last.hashers[w].pc = "idle"

\* C34: during the parallel hashing of a build no worker holds the mutex
\* of the hash cache while it hashes a file; no interleaving of the workers
\* deadlocks: as long as a file waits or a worker is at work some worker can
\* take a step; and when all workers have finished the cache holds, for
\* every regular file that was processed, the entry of that file: its size,
\* its mtime and the hash the build took for it, which is the hash of its
\* content whenever the cache the build started from gave no hit.
C34_CacheMutexProtocol ==
    /\ \A w \in HashWorkers :
          last.hashers[w].pc \in {"hashing", "probe", "insert", "idle"}
             => w \notin last.mutex
    /\ ~HashDone => ENABLED NextHash
    /\ HashDone
          => \A p \in DOMAIN last.entries :
                ws[p].kind = "file"
                   => /\ p \in DOMAIN cache
                      /\ cache[p].size = Len(ws[p].bytes)
                      /\ cache_get(cache, p, Len(ws[p].bytes), ws[p].mtime)
                            = [some |-> TRUE, hash |-> last.entries[p]]
                      /\ \/ cache_get(pre.cache, p, Len(ws[p].bytes), ws[p].mtime).some
                         \/ last.entries[p] = Blake3(ws[p].bytes)

\* all workers have finished after one of them replaced the entry the cache
\* had for a file and another inserted the entry of a second file
C34_Witness ==
    /\ HashDone
    /\ \E p, q \in DOMAIN last.entries :
          /\ p # q
          /\ p \in DOMAIN pre.cache /\ cache[p] # pre.cache[p]
          /\ q \notin DOMAIN pre.cache /\ q \in DOMAIN cache

(***************************************************************************)
(* A dry run beside the restore it announces.                              *)
(***************************************************************************)
ListSet(seq) == {seq[i] : i \in 1..Len(seq)}

\* the counters of the statistics and the paths of their lists
Report(stats) ==
    [copies |-> stats.copies, unchanged |-> stats.unchanged,
     symlinks |-> stats.symlinks, removed |-> stats.removed,
     copied_files |-> ListSet(stats.copied_files),
     unchanged_files |-> ListSet(stats.unchanged_files),
     symlink_files |-> ListSet(stats.symlink_files),
     removed_files |-> ListSet(stats.removed_files)]

\* the restore of the manifest of the last command, not as a dry run, from
\* the state the last command started from
RealRestore ==
    load_snapshot(pre.ws, pre.store, pre.manifests[last.name], FALSE,
                  Sorted(DOMAIN pre.manifests[last.name].files))

\* C35: a dry run of a restore reports the counters and the path lists
\* (copies, unchanged, symlinks, removed) that the restore of the same
\* manifest from the same workspace reports when it is not a dry run, also
\* when a stale file lies under a tracked root and matches a tracked file
\* pattern, or lies under two nested tracked roots.
C35_DryRunReportsTheRestore ==
    (last.cmd = "load" /\ last.dry_run /\ last.ok /\ RealRestore.ok)
        => Report(last.stats) = Report(RealRestore.stats)

\* C36: a save onto the name of an existing snapshot that fails after the
\* overwrite was confirmed leaves the manifest saved before under that name
\* present as it was, so that the snapshots that can be restored are the
\* ones that could be restored before the save.
C36_FailedSaveKeepsOldSnapshot ==
    (last.cmd = "save" /\ ~last.ok /\ last.name \in DOMAIN pre.manifests)
        => /\ last.name \in DOMAIN manifests
           /\ manifests[last.name] = pre.manifests[last.name]
           /\ DOMAIN manifests = DOMAIN pre.manifests

\* the file a symlink at p led to before the last command is as it was:
\* a blob of the store, or a file of the workspace that the manifest does
\* not list
TargetKept(p, files) ==
    IF IsStorePath(Resolve(pre.ws, p))
    THEN store = pre.store
    ELSE (Resolve(pre.ws, p) \in WsPaths \ DOMAIN files
          /\ pre.ws[Resolve(pre.ws, p)].kind = "file")
            => \/ ws[Resolve(pre.ws, p)] = pre.ws[Resolve(pre.ws, p)]
               \/ InSeq(Resolve(pre.ws, p), last.stats.removed_files)

\* C37: when an entry of the manifest is a regular file and the workspace
\* holds a symlink at its path, a successful restore leaves a regular file
\* with the recorded content at the path, and the file the symlink led to
\* keeps its content, mode and mtime.
C37_SymlinkReplacedByFile ==
    (last.cmd = "load" /\ last.ok /\ ~last.dry_run)
        => \A p \in DOMAIN LastManifest.files :
              (~LastManifest.files[p].is_symlink /\ pre.ws[p].kind = "symlink")
                 => /\ ws[p].kind = "file"
                    /\ Restored(ws, p, LastManifest.files[p])
                    /\ TargetKept(p, LastManifest.files)

\* C38: after a build, for every symlink entry of its manifest the store
\* returns exactly the recorded target for the hash of the entry, at every
\* compression level, also when a regular file whose content is the target
\* string, and which so has the same hash, was stored by this build or by
\* an earlier one.
C38_SymlinkTargetRoundTrip ==
    (last.cmd = "save" /\ last.ok)
        => \A p \in DOMAIN manifests[last.name].files :
              manifests[last.name].files[p].is_symlink
                 => retrieve_symlink_target(store, manifests[last.name].files[p].hash)
                       = [ok |-> TRUE,
                          target |-> manifests[last.name].files[p].symlink_target.val]

\* C39: after a successful restore that is not a dry run every directory
\* the manifest lists exists and carries the mode and the mtime recorded
\* for it, also when the restore created files inside it after the
\* directory had received its metadata.
C39_DirectoriesKeepRecordedMetadata ==
    (last.cmd = "load" /\ last.ok /\ ~last.dry_run)
        => \A d \in DOMAIN LastManifest.directories :
              /\ ws[d].kind = "dir"
              /\ st_mode(ws[d]) = LastManifest.directories[d].mode
              /\ mtime_or_zero(ws[d].mtime)
                    = <<LastManifest.directories[d].mtime_secs,
                        LastManifest.directories[d].mtime_nanos>>

\* C40: a file that a build selected and left out of its manifest because
\* processing it failed is not deleted by a later restore of that snapshot:
\* a restore onto the workspace the snapshot was built from unlinks no file
\* that existed when it was built.
C40_SkippedFileNotDeleted ==
    (/\ last.cmd = "load" /\ last.ok /\ ~last.dry_run
     /\ pre.last.cmd = "save" /\ pre.last.ok /\ pre.last.name = last.name)
        => \A p \in WsPaths :
              pre.ws[p].kind \in {"file", "symlink"} => ws[p].kind # "none"

====
